---- MODULE Spec2Model ----
(***************************************************************************)
(* Verification model of the management-controller control plane:          *)
(*   - the state-sync engine            (modules/src/state-sync.js)        *)
(*   - the claim server                 (claim-server.js)                  *)
(*   - the certificate reconcilers      (certs section of compose.js)      *)
(*   - the deployment-state evaluator   (site-deployment-state.js)         *)
(*   - the backbone-link manager        (backbone-links section of         *)
(*                                       gotemplate.js)                    *)
(*   - the AMQP request/response layer  (modules/amqp.js)                  *)
(* Each subsystem has its own next-state relation over a shared Init.      *)
(***************************************************************************)
EXTENDS Integers, Sequences, FiniteSets, TLC

\* ------------------------------------------------------------------------
\* Bounds of the model
\* ------------------------------------------------------------------------
MaxMsgs == 2            \* messages received by the state-sync engine in a run
MaxClaims == 2          \* claim assertions received by the claim server in a run
InstanceLimit == 1      \* InstanceLimit of the invitation being claimed
MaxRequests == 3        \* CertificateRequests rows ever inserted in a run
MaxBeats == 2           \* UpdateLocalState calls and heartbeat timer expiries in a run
MaxCalls == 2           \* amqp.Request calls in a run
MaxReplies == 2         \* messages delivered to the reply receiver in a run
Resolution == 6         \* Math.random() returns one of 0/Resolution .. (Resolution-1)/Resolution
MaxRounds == 3          \* sendInitialBeacon invocations in a run
MaxSenders == 3         \* OpenSender calls on the connection in a run
MaxEntries == 2         \* entries of a map handed to HashOfData
MaxTokens == 5          \* literals and directives of a template
MaxMutations == 2       \* committed changes to the advertised state of the peers in a run
MaxEvents == 2          \* ADDED events the secret watch delivers for one request id
MaxRows == 1            \* rows in state 'new' of one table at a time

\* ------------------------------------------------------------------------
\* Constants of the program
\* ------------------------------------------------------------------------
HEARTBEAT_PERIOD_SECONDS == 10
HEARTBEAT_WINDOW_SECONDS == 5
BEACON_DELAY_MSEC == 5000

\* ------------------------------------------------------------------------
\* Value universes
\* ------------------------------------------------------------------------
Peers    == {"s1", "s2"}
Keys     == {"k1", "k2"}
KeyOrder == <<"k1", "k2">>        \* enumeration order of object keys
Hashes   == {"H0", "H1"}
None     == "none"                \* key not present in a map
Null     == "null"                \* the JavaScript null value
ConnKeys == {"bb1"}
Undefined == "<undefined>"       \* the JavaScript undefined value
BackboneIds == ConnKeys \cup {Undefined}   \* backboneId arguments of AddConnection
Targets  == {"t1", "t2"}          \* addresses handed to AddTarget
Draws    == 0 .. (Resolution - 1) \* Math.random() = u / Resolution
NoPeer   == [known |-> FALSE, remoteState |-> [k \in {"k1", "k2"} |-> "none"], hbTimer |-> FALSE,
             connectionKey |-> "none", localState |-> [k \in {"k1", "k2"} |-> "none"]]

HashMaps  == [Keys -> Hashes \cup {None}]
EmptyMap  == [k \in Keys |-> None]
NoHashSet == [k \in Keys |-> Null]   \* null given where a manifest is expected

\* remote-state manifests an embedding may return from onNewPeer
InitialRemoteStates ==
    { [k \in Keys |-> IF k = "k1" THEN "H0" ELSE None] }

\* local-state manifests an embedding may return from onNewPeer
InitialLocalStates ==
    { [k \in Keys |-> IF k = "k2" THEN "H0" ELSE None] }

\* hashsets a peer may advertise in a heartbeat
HeartbeatHashsets ==
    { EmptyMap,
      [k \in Keys |-> IF k = "k1" THEN "H1" ELSE None],
      [k \in Keys |-> IF k = "k1" THEN "H0" ELSE "H1"] }

VARIABLES
    \* ---- state-sync engine
    peers,              \* peerId -> NoPeer | [known, remoteState, hbTimer, connectionKey, localState]
    connections,        \* set of registered connection keys
    processingContext,  \* peerId -> [workQueue, processing]
    task,               \* peerId -> position of the message being processed
    initialBeacon,
    arrived,            \* peerId -> number of messages received so far
    completed,          \* peerId -> number of messages fully processed
    drains,             \* peerId -> number of running processWorkQueue loops
    log,                \* peerId -> GETs issued and pull outcomes of its last two messages
    heartbeats,         \* peerId -> heartbeat bodies sent to the peer
    timers,             \* peerId -> number of heartbeat timers pending
    beats,              \* UpdateLocalState calls and timer expiries so far
    armedDelay,         \* delay (msec) of the last heartbeat timer set, 0 before the first
    sessions,           \* backboneIds of the sessions added and not deleted by the embedding
    extraTargets,       \* addresses given to AddTarget, in order
    pendingSendable,    \* connection keys whose sender has not yet reported sendable
    beaconTimers,       \* delays (msec) of the pending sendInitialBeacon timers
    sentBeacons,        \* beacon messages sent so far
    rounds,             \* sendInitialBeacon invocations so far
    \* ---- claim server
    invitation,         \* the MemberInvitations row: committed count, row lock, deadline
    memberSites,        \* committed MemberSites rows (member ids)
    claim,              \* claim assertion -> position in processClaim
    memberCompletions,  \* memberId -> completion slot
    completion,         \* memberId -> position of CompleteMember
    resolved,           \* memberId -> how often and how the waiting claim was resolved
    \* ---- certificate pipeline (committed database rows, cluster objects,
    \*      and the position of every open transaction)
    entity,             \* managed-entity rows: lifecycle, certificate, hostname, port
    requests,           \* CertificateRequests rows
    tlsCertificates,    \* TlsCertificates rows
    nextRequestId,      \* next id gen_random_uuid() hands out
    clusterCerts,       \* request id -> cert-manager Certificate object (none / pending / issued)
    issuers,            \* request ids for which an Issuer object exists in the cluster
    secrets,            \* request ids for which the secret exists in the cluster
    secretEvents,       \* secret ADDED watch events not yet handled
    certEvents,         \* certificate MODIFIED watch events not yet handled
    reconciler,         \* entity -> position of its kind's processNew* transaction
    requestLoop,        \* position of processNewCertificateRequests
    secretTx,           \* request id -> position of secretAdded
    addHost,            \* position of AddHostToAccessPoint
    trajectory,         \* lifecycle values the interior site has taken, in order
    \* ---- deployment state
    sites,              \* InteriorSites rows: lifecycle, deploymentState
    accessPoints,       \* BackboneAccessPoints rows: absent / present / deleted
    links,              \* InterRouterLinks rows: access point, connecting site
    notifications,      \* deployment-state calls a handler still has to make
    backbonePeers,      \* interior sites the sync module knows as peers
    evaluated,          \* sites the last transaction ran evaluateSingleSite_TX on
    \* ---- backbone-link manager
    tlsResolved,        \* the controller's TLS credential has been loaded
    backboneReady,      \* backbone -> Backbones.Lifecycle = 'ready'
    manageAps,          \* manage access point -> partial / ready / deleted
    bbConnections,      \* backbone -> the access point its session was opened to
    handlerLinks,       \* backbones the registered handlers hold a link for
    cycleDone,          \* a reconcile cycle has run since the last database change
    registrations,      \* the registered (onLinkAdded, onLinkDeleted) pairs, in order
    registering,        \* subscriber -> position of its RegisterHandler call
    calls,              \* subscriber -> session -> onLinkAdded / onLinkDeleted calls received
    cycle,              \* position of the running reconcileBackboneConnections
    opened,             \* sessions opened so far, named by their access point
    closedBefore,       \* subscriber -> sessions closed before it registered
    \* ---- AMQP request/response
    nextCid,            \* next correlation id
    inFlight,           \* correlation ids that have a handler in the in-flight table
    requestTimers,      \* correlation ids whose timeout timer is pending
    waiters,            \* correlation id -> promise of the Request and the calls made on it
    network,            \* correlation id -> replies on their way to the reply receiver
    replied,            \* replies sent so far
    replyTo,            \* conn.replyTo: Undefined or the dynamic reply address
    senders,            \* conn.senders: [async, sendable, notified] and what was called
    \* ---- site templates
    data,               \* the two maps handed to HashOfData: entries in insertion order
    digests,            \* what HashOfData returned for each of them
    \* ---- template expander
    template,           \* the template: its literal texts and directives, in order
    scope,              \* [local, remote]: the data handed to Expand
    expansion,          \* outcome of Expand: [called, threw, text, unresolvable]
    \* ---- application compose engine
    vanSites,           \* MemberSites rows of the VAN: site -> SiteClasses, NoSite when absent
    deployment,         \* the DeployedApplications row: "none", "created" or "deployed"
    siteData,           \* SiteData rows of the deployment: site -> the rows stored for it
    \* ---- sync-management bridge
    database,           \* site -> key -> hash of what the database holds for that piece
    snapshot,           \* site -> [read, state]: the localState onNewBackboneSite has built
    notify,             \* change notifications called but not yet run: [site, key, kind]
    mutations,          \* committed changes so far
    pieces,             \* key -> the kind of the piece it names, once a change has told
    \* ---- finalization of a credential (secretAdded)
    finalKind,          \* the column of the request that is set: the table of its target
    finalRequest,       \* the CertificateRequests row of the request id is there
    finalTls,           \* committed TlsCertificates rows whose Id is the request id
    finalEntity,        \* Lifecycle of the target row
    finalizers,         \* the secretAdded calls: [pc, alerted]
    writer,             \* the call whose uncommitted INSERT holds the key, or 0
    alerts,             \* notifications made: [by, call, visible]
    commits,            \* committed transactions of secretAdded that changed rows
    \* ---- reconciler loops of the certificate module
    loops,              \* loop -> [rows, scheduled, armed, outcome]
    \* ---- state-sync engine started without a receive address
    addressToUse,       \* the address put into heartbeats, Undefined until onAddress
    apiReceiver,        \* the dynamic receiver of the engine: "none", "opening", "open"
    addressedAt         \* beacons that had been sent when onAddress was called

beaconVars == <<extraTargets, pendingSendable, beaconTimers, sentBeacons, rounds>>

bridgeVars == <<database, snapshot, notify, mutations, pieces>>

dynamicVars == <<addressToUse, apiReceiver, addressedAt>>

syncVars == <<peers, connections, processingContext, task, initialBeacon,
              arrived, completed, drains, log, heartbeats, timers, beats,
              armedDelay, sessions, beaconVars, bridgeVars, dynamicVars>>

claimVars == <<invitation, memberSites, claim, memberCompletions, completion, resolved>>

certVars == <<entity, requests, tlsCertificates, nextRequestId, clusterCerts, issuers,
              secrets, secretEvents, certEvents, reconciler, requestLoop, secretTx, addHost,
              trajectory>>

deployVars == <<sites, accessPoints, links, notifications, backbonePeers, evaluated>>

handlerVars == <<registrations, registering, calls, cycle, opened, closedBefore>>

linkVars == <<tlsResolved, backboneReady, manageAps, bbConnections, handlerLinks, cycleDone,
              handlerVars>>

beatVars == <<heartbeats, timers, beats, armedDelay, sessions, beaconVars>>

senderVars == <<replyTo, senders>>

hashVars == <<data, digests>>

expandVars == <<template, scope, expansion>>

composeVars == <<vanSites, deployment, siteData>>

finalVars == <<finalKind, finalRequest, finalTls, finalEntity, finalizers, writer, alerts, commits>>

loopVars == <<loops>>

controllerVars == <<finalVars, loopVars>>

templateVars == <<hashVars, expandVars, composeVars, controllerVars>>

amqpVars == <<nextCid, inFlight, requestTimers, waiters, network, replied, senderVars,
              templateVars>>

nonBridgeVars == <<claimVars, certVars, deployVars, linkVars, amqpVars, dynamicVars>>

\* everything but the variables of the state-sync engine
nonSyncVars == <<nonBridgeVars, bridgeVars>>

nonClaimVars == <<syncVars, certVars, deployVars, linkVars, amqpVars>>

vars == <<peers, connections, processingContext, task, initialBeacon,
          arrived, completed, drains, log, heartbeats, timers, beats,
          armedDelay, sessions, extraTargets, pendingSendable, beaconTimers, sentBeacons, rounds,
          invitation, memberSites, claim, memberCompletions, completion, resolved,
          entity, requests, tlsCertificates, nextRequestId, clusterCerts, issuers,
          secrets, secretEvents, certEvents, reconciler, requestLoop, secretTx, addHost,
          trajectory,
          sites, accessPoints, links, notifications, backbonePeers, evaluated,
          tlsResolved, backboneReady, manageAps, bbConnections, handlerLinks, cycleDone,
          registrations, registering, calls, cycle, opened, closedBefore,
          nextCid, inFlight, requestTimers, waiters, network, replied,
          replyTo, senders, data, digests, template, scope, expansion,
          vanSites, deployment, siteData,
          database, snapshot, notify, mutations, pieces,
          finalKind, finalRequest, finalTls, finalEntity, finalizers, writer, alerts, commits,
          loops, addressToUse, apiReceiver, addressedAt>>

\* ========================================================================
\* State-sync engine
\* ========================================================================
NoMsg == [op |-> "none", site |-> "none", hasHashset |-> FALSE, hashset |-> EmptyMap,
          connectionKey |-> "none", seq |-> 0]


Total(f) == f["s1"] + f["s2"]

\* onHeartbeat, lines 148-158: keys to delete and keys to pull
ToDeleteKeys(rs, hs)  == SelectSeq(KeyOrder, LAMBDA k : rs[k] # None /\ hs[k] = None)
ToRequestKeys(rs, hs) == SelectSeq(KeyOrder, LAMBDA k : hs[k] # None /\ hs[k] # rs[k])

\* pull loop: issue the GET for the next key, or return from onHeartbeat
NextRequest(t) ==
    IF t.toRequest # <<>>
    THEN [t EXCEPT !.pc = "requesting", !.key = Head(t.toRequest),
                   !.toRequest = Tail(t.toRequest),
                   !.gets = Append(t.gets, Head(t.toRequest))]
    ELSE [t EXCEPT !.pc = "returned"]

\* line 180: the sender is looked up once, after the deletions; a missing
\* connection record raises out of onHeartbeat
AfterDeletes(t, conns) ==
    IF t.msg.connectionKey \notin conns
    THEN [t EXCEPT !.pc = "returned", !.threw = TRUE]
    ELSE NextRequest(t)

\* deletion loop: call onStateChange(peer, key, null, null) for the next key
NextDelete(t, conns) ==
    IF t.toDelete # <<>>
    THEN [t EXCEPT !.pc = "deleting", !.key = Head(t.toDelete),
                   !.toDelete = Tail(t.toDelete),
                   !.calls = Append(t.calls, [key |-> Head(t.toDelete), hash |-> Null])]
    ELSE AfterDeletes(t, conns)

\* lines 140-158: reconcile the hashset of message m against remote state rs
Reconcile(t, rs, conns) ==
    IF ~t.msg.hasHashset
    THEN [t EXCEPT !.pc = "returned"]
    ELSE NextDelete([t EXCEPT !.reconciled = TRUE, !.rs0 = rs,
                              !.toDelete = ToDeleteKeys(rs, t.msg.hashset),
                              !.toRequest = ToRequestKeys(rs, t.msg.hashset)], conns)

NewTask(m, wasKnown) ==
    [pc |-> "dispatch", msg |-> m, known |-> wasKnown, reconciled |-> FALSE,
     rs0 |-> EmptyMap, toDelete |-> <<>>, toRequest |-> <<>>, key |-> None,
     hash |-> None, calls |-> <<>>, gets |-> <<>>, pulls |-> <<>>,
     delThrew |-> {}, threw |-> FALSE, pinged |-> FALSE]

IdleTask == [NewTask(NoMsg, FALSE) EXCEPT !.pc = "idle"]

\* processMessage/DispatchMessage/onHeartbeat up to the first await
BeginMessage(m, peer, conns) ==
    LET t == NewTask(m, peer.known) IN
    IF m.op = "GET" THEN [t EXCEPT !.pc = "staterequest"]
    ELSE IF ~peer.known THEN [t EXCEPT !.pc = "newpeer"]
    ELSE Reconcile([t EXCEPT !.pinged = TRUE], peer.remoteState, conns)

\* one entry of the per-peer record of pulls
Event(ev, t) == [ev |-> ev, key |-> t.key, seq |-> t.msg.seq]

\* the record keeps the events of the message being processed and of the
\* message before it
Recent(l, seq) == SelectSeq(l, LAMBDA e : e.seq >= seq - 1)

\* line 186: a task that has moved on to a GET has sent the request
WithGet(l, t) == IF t.pc = "requesting" THEN Append(l, Event("get", t)) ELSE l

\* record of peer p once message processing has begun as task t
Begun(l, t) == WithGet(Recent(l, t.msg.seq), t)

\* a drain loop started for every message, whatever the processing flag says
StartsDrainAlways(ctx) == TRUE

\* onMessage line 302: a drain loop is started only when none is running
StartsDrain(ctx) == ~ctx.processing

\* processWorkQueue line 279: the oldest queued message is taken
TakeNext(queue) == Head(queue)
RestOf(queue)   == Tail(queue)

Messages(p) ==
    { [op |-> "HB", site |-> p, hasHashset |-> TRUE, hashset |-> hs,
       connectionKey |-> c, seq |-> arrived[p] + 1]
        : hs \in HeartbeatHashsets, c \in connections }
    \cup
    { [op |-> o, site |-> p, hasHashset |-> FALSE, hashset |-> EmptyMap,
       connectionKey |-> c, seq |-> arrived[p] + 1]
        : o \in {"HB", "GET"}, c \in connections }

\* onMessage(connectionKey, application_properties, body, onReply)
OnMessage(p, m) ==
    /\ Total(arrived) < MaxMsgs
    /\ arrived' = [arrived EXCEPT ![p] = @ + 1]
    /\ LET ctx   == processingContext[p]
           queue == Append(ctx.workQueue, m)
       IN  IF StartsDrain(ctx)
           THEN /\ drains' = [drains EXCEPT ![p] = @ + 1]
                /\ processingContext' = [processingContext EXCEPT
                        ![p] = [workQueue |-> RestOf(queue), processing |-> TRUE]]
                /\ task' = [task EXCEPT ![p] =
                        IF task[p].pc = "idle"
                        THEN BeginMessage(TakeNext(queue), peers[p], connections)
                        ELSE @]
                /\ initialBeacon' = (initialBeacon /\ TakeNext(queue).op # "HB")
                /\ log' = [log EXCEPT ![p] =
                        IF task[p].pc = "idle" THEN Begun(@, task'[p]) ELSE @]
           ELSE /\ processingContext' = [processingContext EXCEPT ![p].workQueue = queue]
                /\ UNCHANGED <<drains, task, initialBeacon, log>>
    /\ UNCHANGED <<peers, connections, completed>>
    /\ UNCHANGED beatVars
    /\ UNCHANGED nonSyncVars

\* processWorkQueue lines 280-283: the awaited processMessage has returned
ProcessWorkQueueNext(p) ==
    /\ task[p].pc = "returned"
    /\ completed' = [completed EXCEPT ![p] = @ + 1]
    /\ LET queue == processingContext[p].workQueue IN
       IF Len(queue) > 0
       THEN /\ processingContext' = [processingContext EXCEPT
                    ![p] = [workQueue |-> RestOf(queue), processing |-> TRUE]]
            /\ task' = [task EXCEPT ![p] = BeginMessage(TakeNext(queue), peers[p], connections)]
            /\ initialBeacon' = (initialBeacon /\ TakeNext(queue).op # "HB")
            /\ log' = [log EXCEPT ![p] = Begun(@, task'[p])]
            /\ UNCHANGED drains
       ELSE /\ processingContext' = [processingContext EXCEPT ![p].processing = FALSE]
            /\ task' = [task EXCEPT ![p] = IdleTask]
            /\ drains' = [drains EXCEPT ![p] = @ - 1]
            /\ UNCHANGED <<initialBeacon, log>>
    /\ UNCHANGED <<peers, connections, arrived>>
    /\ UNCHANGED beatVars
    /\ UNCHANGED nonSyncVars

\* protocol.Heartbeat: a manifest, empty or not, is carried as the hashset;
\* a null hashSet leaves the body without one
Heartbeat(hashSet) ==
    IF hashSet = NoHashSet
    THEN [op |-> "HB", hasHashset |-> FALSE, hashset |-> EmptyMap]
    ELSE [op |-> "HB", hasHashset |-> TRUE, hashset |-> hashSet]

\* timerDelayMsec(floorSec), with Math.random() = u / Resolution
TimerDelayMsec(floorSec, u) ==
    ((u * (HEARTBEAT_WINDOW_SECONDS + 1)) \div Resolution + floorSec) * 1000

\* sendHeartbeat lines 81-83: the timer of the stored handle, if it is still
\* pending, is cancelled
Cleared(peer, pending) == IF peer.hbTimer THEN pending - 1 ELSE pending

\* sendHeartbeat line 84: the sender is read from the record of the peer's
\* connection, which raises when the record is gone
CanSend(peer, conns) == peer.connectionKey \in conns

\* onHeartbeat lines 119-132: onNewPeer returned (localState, remoteState)
NewPeerReturn(p, ls, rs, u) ==
    /\ task[p].pc = "newpeer"
    /\ LET c    == task[p].msg.connectionKey
           peer == [known |-> TRUE, remoteState |-> rs, hbTimer |-> FALSE,
                    connectionKey |-> c, localState |-> ls]
       IN
       IF CanSend(peer, connections)
       THEN /\ peers' = [peers EXCEPT ![p] = [peer EXCEPT !.hbTimer = TRUE]]
            /\ heartbeats' = [heartbeats EXCEPT ![p] = Append(@, Heartbeat(ls))]
            /\ timers' = [timers EXCEPT ![p] = Cleared(peer, @) + 1]
            /\ armedDelay' = TimerDelayMsec(HEARTBEAT_PERIOD_SECONDS, u)
            /\ task' = [task EXCEPT ![p] = Reconcile(@, rs, connections)]
       ELSE /\ peers' = [peers EXCEPT ![p] = peer]
            /\ task' = [task EXCEPT ![p].pc = "returned", ![p].threw = TRUE]
            /\ UNCHANGED <<heartbeats, timers, armedDelay>>
    /\ log' = [log EXCEPT ![p] = WithGet(@, task'[p])]
    /\ UNCHANGED <<connections, processingContext, initialBeacon, arrived, completed, drains>>
    /\ UNCHANGED <<beats, sessions, beaconVars>>
    /\ UNCHANGED nonSyncVars

\* onNewPeer raised: processMessage logs it (lines 268-271)
NewPeerFails(p) ==
    /\ task[p].pc = "newpeer"
    /\ task' = [task EXCEPT ![p].pc = "returned", ![p].threw = TRUE]
    /\ UNCHANGED <<peers, connections, processingContext, initialBeacon, arrived, completed, drains, log>>
    /\ UNCHANGED beatVars
    /\ UNCHANGED nonSyncVars

\* the deletion callback is made but the key is kept
DeleteAppliedKeepsKey(rs, key, ok) == rs

\* remote state after the awaited deletion callback (lines 167-174)
DeleteApplied(rs, key, ok) == IF ok THEN [rs EXCEPT ![key] = None] ELSE rs

\* onHeartbeat lines 163-175: the awaited onStateChange(peer, key, null, null)
\* returned (ok) or raised (~ok)
DeleteReturn(p, ok) ==
    /\ task[p].pc = "deleting"
    /\ peers' = [peers EXCEPT ![p].remoteState = DeleteApplied(@, task[p].key, ok)]
    /\ task' = [task EXCEPT ![p] =
            NextDelete([@ EXCEPT !.delThrew = IF ok THEN @ ELSE @ \cup {task[p].key}],
                       connections)]
    /\ log' = [log EXCEPT ![p] = WithGet(@, task'[p])]
    /\ UNCHANGED <<connections, processingContext, initialBeacon, arrived, completed, drains>>
    /\ UNCHANGED beatVars
    /\ UNCHANGED nonSyncVars

\* the callback made for the key after the one that was pulled
ChangedKeyNext(t) == IF t.toRequest # <<>> THEN Head(t.toRequest) ELSE t.key

\* line 195: the key handed to onStateChange is the key of the GET
ChangedKey(t) == t.key

\* lines 186-201: the GET reply arrived with status 200 and hash h
GetReplyOk(p, h) ==
    /\ task[p].pc = "requesting"
    /\ task' = [task EXCEPT ![p].pc = "applying", ![p].hash = h,
                            ![p].calls = Append(@, [key |-> ChangedKey(task[p]), hash |-> h])]
    /\ log' = [log EXCEPT ![p] =
            Append(@, [ev |-> "change", key |-> ChangedKey(task[p]), seq |-> task[p].msg.seq])]
    /\ UNCHANGED <<peers, connections, processingContext, initialBeacon, arrived, completed, drains>>
    /\ UNCHANGED beatVars
    /\ UNCHANGED nonSyncVars

\* the pull loop left at the first failure
AbandonsPulls(t) == [t EXCEPT !.pc = "returned"]

\* lines 202-205: the failure is logged inside the loop, which goes on with
\* the next key
AfterPullFailure(t) == NextRequest(t)

\* lines 197-205: the request timed out or the reply was not a 200
GetReplyFails(p, status) ==
    /\ task[p].pc = "requesting"
    /\ task' = [task EXCEPT ![p] =
            AfterPullFailure([@ EXCEPT !.pulls = Append(@, [key |-> task[p].key, status |-> status,
                                                             hash |-> None, applied |-> FALSE])])]
    /\ log' = [log EXCEPT ![p] = WithGet(Append(@, Event("fail", task[p])), task'[p])]
    /\ UNCHANGED <<peers, connections, processingContext, initialBeacon, arrived, completed, drains>>
    /\ UNCHANGED beatVars
    /\ UNCHANGED nonSyncVars

\* the hash of the heartbeat recorded instead of the hash of the reply
PulledHashAdvertised(t) == t.msg.hashset[t.key]

\* the hash recorded for a pulled key (line 196)
PulledHash(t) == t.hash

\* lines 195-196: the awaited onStateChange(peer, key, body.hash, body.data)
\* returned (ok) or raised (~ok)
ApplyReturn(p, ok) ==
    /\ task[p].pc = "applying"
    /\ peers' = [peers EXCEPT ![p].remoteState =
            IF ok THEN [@ EXCEPT ![task[p].key] = PulledHash(task[p])] ELSE @]
    /\ task' = [task EXCEPT ![p] =
            IF ok
            THEN NextRequest([@ EXCEPT !.pulls = Append(@, [key |-> task[p].key, status |-> "200",
                                                             hash |-> task[p].hash, applied |-> TRUE])])
            ELSE AfterPullFailure([@ EXCEPT !.pulls = Append(@, [key |-> task[p].key, status |-> "200",
                                                             hash |-> task[p].hash, applied |-> FALSE])])]
    /\ log' = [log EXCEPT ![p] =
            WithGet(Append(@, Event(IF ok THEN "done" ELSE "fail", task[p])), task'[p])]
    /\ UNCHANGED <<connections, processingContext, initialBeacon, arrived, completed, drains>>
    /\ UNCHANGED beatVars
    /\ UNCHANGED nonSyncVars

\* processMessage lines 258-263: onStateRequest returned and the reply was sent
StateRequestReturn(p) ==
    /\ task[p].pc = "staterequest"
    /\ task' = [task EXCEPT ![p].pc = "returned"]
    /\ UNCHANGED <<peers, connections, processingContext, initialBeacon, arrived, completed, drains, log>>
    /\ UNCHANGED beatVars
    /\ UNCHANGED nonSyncVars

\* UpdateLocalState(peerId, stateKey, stateHash) followed by sendHeartbeat:
\* the manifest is changed and the pending timer cancelled before the sender
\* is looked up
LocalStateUpdate(p, k, h, u) ==
    /\ beats < MaxBeats
    /\ beats' = beats + 1
    /\ IF ~peers[p].known
       THEN UNCHANGED <<peers, heartbeats, timers, armedDelay>>
       ELSE LET ls == [peers[p].localState EXCEPT ![k] = IF h = Null THEN None ELSE h] IN
            IF CanSend(peers[p], connections)
            THEN /\ peers' = [peers EXCEPT ![p].localState = ls, ![p].hbTimer = TRUE]
                 /\ heartbeats' = [heartbeats EXCEPT ![p] = Append(@, Heartbeat(ls))]
                 /\ timers' = [timers EXCEPT ![p] = Cleared(peers[p], @) + 1]
                 /\ armedDelay' = TimerDelayMsec(HEARTBEAT_PERIOD_SECONDS, u)
            ELSE /\ peers' = [peers EXCEPT ![p].localState = ls, ![p].hbTimer = FALSE]
                 /\ timers' = [timers EXCEPT ![p] = Cleared(peers[p], @)]
                 /\ UNCHANGED <<heartbeats, armedDelay>>
    /\ UNCHANGED <<connections, processingContext, task, initialBeacon, arrived, completed,
                   drains, log, sessions, beaconVars>>

\* UpdateLocalState called by an embedding that has no other state
UpdateLocalState(p, k, h, u) ==
    /\ LocalStateUpdate(p, k, h, u)
    /\ UNCHANGED nonSyncVars

\* the timer set at lines 92-96 expires and calls sendHeartbeat(peerId); no
\* handler catches what that call raises
HeartbeatTimerFires(p, u) ==
    /\ beats < MaxBeats
    /\ peers[p].hbTimer /\ timers[p] > 0
    /\ beats' = beats + 1
    /\ IF CanSend(peers[p], connections)
       THEN /\ heartbeats' = [heartbeats EXCEPT ![p] = Append(@, Heartbeat(peers[p].localState))]
            /\ armedDelay' = TimerDelayMsec(HEARTBEAT_PERIOD_SECONDS, u)
            /\ UNCHANGED <<peers, timers>>
       ELSE /\ peers' = [peers EXCEPT ![p].hbTimer = FALSE]
            /\ timers' = [timers EXCEPT ![p] = @ - 1]
            /\ UNCHANGED <<heartbeats, armedDelay>>
    /\ UNCHANGED <<connections, processingContext, task, initialBeacon, arrived, completed,
                   drains, log, sessions, beaconVars>>
    /\ UNCHANGED nonSyncVars

\* AddConnection line 342: const connectionKey = backboneId || "net"
ConnectionKey(backboneId) == IF backboneId = Undefined THEN "net" ELSE backboneId

\* the property key that a value used as an index names
PropertyKey(value) == IF value = Undefined THEN "undefined" ELSE value

\* AddConnection(backboneId, conn), the local address having been given to
\* Start: a sender with the onSendable callback is opened on the connection
\* and the record is stored under the connection key, replacing a record
\* already there
AddConnection(backboneId) ==
    /\ connections' = connections \cup {ConnectionKey(backboneId)}
    /\ pendingSendable' = pendingSendable \cup {ConnectionKey(backboneId)}
    /\ sessions' = sessions \cup {backboneId}
    /\ UNCHANGED <<peers, processingContext, task, initialBeacon, arrived, completed, drains, log>>
    /\ UNCHANGED <<heartbeats, timers, beats, armedDelay>>
    /\ UNCHANGED <<extraTargets, beaconTimers, sentBeacons, rounds>>
    /\ UNCHANGED nonSyncVars

\* DeleteConnection(backboneId) for a session that was added:
\* delete connections[backboneId]
DeleteConnection(backboneId) ==
    /\ backboneId \in sessions
    /\ connections' = connections \ {PropertyKey(backboneId)}
    /\ sessions' = sessions \ {backboneId}
    /\ UNCHANGED <<peers, processingContext, task, initialBeacon, arrived, completed, drains, log>>
    /\ UNCHANGED <<heartbeats, timers, beats, armedDelay, beaconVars>>
    /\ UNCHANGED nonSyncVars

\* AddTarget(targetAddress), called once for an address
AddTarget(targetAddress) ==
    /\ \A i \in DOMAIN extraTargets : extraTargets[i] # targetAddress
    /\ extraTargets' = Append(extraTargets, targetAddress)
    /\ UNCHANGED <<peers, connections, processingContext, task, initialBeacon, arrived,
                   completed, drains, log>>
    /\ UNCHANGED <<heartbeats, timers, beats, armedDelay, sessions>>
    /\ UNCHANGED <<pendingSendable, beaconTimers, sentBeacons, rounds>>
    /\ UNCHANGED nonSyncVars

\* sendInitialBeacon lines 212-224: one message for every extra target
BeaconRound(targets, n) ==
    [i \in 1..Len(targets) |->
        [to |-> targets[i], connectionKey |-> "net", body |-> Heartbeat(NoHashSet), round |-> n]]

\* sendInitialBeacon, the pending beacon timers being pendingTimers
SendInitialBeacon(pendingTimers) ==
    /\ rounds' = rounds + 1
    /\ sentBeacons' = IF initialBeacon /\ "net" \in connections
                      THEN sentBeacons \o BeaconRound(extraTargets, rounds + 1)
                      ELSE sentBeacons
    /\ beaconTimers' = IF initialBeacon
                       THEN Append(pendingTimers, BEACON_DELAY_MSEC)
                       ELSE pendingTimers

\* onSendable(connectionKey): the sender opened by AddConnection reports,
\* once, that it is sendable
OnSendable(connectionKey) ==
    /\ connectionKey \in pendingSendable
    /\ pendingSendable' = pendingSendable \ {connectionKey}
    /\ IF initialBeacon
       THEN rounds < MaxRounds /\ SendInitialBeacon(beaconTimers)
       ELSE UNCHANGED <<rounds, sentBeacons, beaconTimers>>
    /\ UNCHANGED <<peers, connections, processingContext, task, initialBeacon, arrived,
                   completed, drains, log>>
    /\ UNCHANGED <<heartbeats, timers, beats, armedDelay, sessions, extraTargets>>
    /\ UNCHANGED nonSyncVars

\* a timer set at line 230 expires and calls sendInitialBeacon
BeaconTimerFires ==
    /\ rounds < MaxRounds
    /\ beaconTimers # <<>>
    /\ SendInitialBeacon(Tail(beaconTimers))
    /\ UNCHANGED <<peers, connections, processingContext, task, initialBeacon, arrived,
                   completed, drains, log>>
    /\ UNCHANGED <<heartbeats, timers, beats, armedDelay, sessions, extraTargets, pendingSendable>>
    /\ UNCHANGED nonSyncVars

InitSync ==
    /\ peers = [p \in Peers |-> NoPeer]
    /\ connections = {}
    /\ processingContext = [p \in Peers |-> [workQueue |-> <<>>, processing |-> FALSE]]
    /\ task = [p \in Peers |-> IdleTask]
    /\ initialBeacon = TRUE
    /\ addressToUse = Undefined
    /\ apiReceiver = "none"
    /\ addressedAt = 0
    /\ arrived = [p \in Peers |-> 0]
    /\ completed = [p \in Peers |-> 0]
    /\ drains = [p \in Peers |-> 0]
    /\ log = [p \in Peers |-> <<>>]
    /\ heartbeats = [p \in Peers |-> <<>>]
    /\ timers = [p \in Peers |-> 0]
    /\ beats = 0
    /\ armedDelay = 0
    /\ sessions = {}
    /\ database = [p \in Peers |-> [k \in Keys |-> IF k = "k2" THEN "H0" ELSE None]]
    /\ snapshot = [p \in Peers |-> [read |-> FALSE, state |-> EmptyMap]]
    /\ notify = {}
    /\ mutations = 0
    /\ pieces = [k \in Keys |-> None]
    /\ extraTargets = <<>>
    /\ pendingSendable = {}
    /\ beaconTimers = <<>>
    /\ sentBeacons = <<>>
    /\ rounds = 0

NextSync ==
    \/ \E p \in Peers : \E m \in Messages(p) : OnMessage(p, m)
    \/ \E p \in Peers : ProcessWorkQueueNext(p)
    \/ \E p \in Peers : \E ls \in InitialLocalStates : \E rs \in InitialRemoteStates :
            NewPeerReturn(p, ls, rs, 0)
    \/ \E p \in Peers : NewPeerFails(p)
    \/ \E p \in Peers : \E ok \in BOOLEAN : DeleteReturn(p, ok)
    \/ \E p \in Peers : \E h \in Hashes \cup {Null} : GetReplyOk(p, h)
    \/ \E p \in Peers : \E status \in {"timeout", "404"} : GetReplyFails(p, status)
    \/ \E p \in Peers : \E ok \in BOOLEAN : ApplyReturn(p, ok)
    \/ \E p \in Peers : StateRequestReturn(p)
    \/ \E c \in ConnKeys : AddConnection(c)
    \/ \E c \in ConnKeys : DeleteConnection(c)

\* heartbeats that carry no hashset
Beacons(p) == { m \in Messages(p) : m.op = "HB" /\ ~m.hasHashset }

\* the outgoing side of the engine: peers are adopted from heartbeats without
\* a hashset, so that no pull is made
NextBeat ==
    \/ \E p \in Peers : \E m \in Beacons(p) : OnMessage(p, m)
    \/ \E p \in Peers : ProcessWorkQueueNext(p)
    \/ \E p \in Peers : \E ls \in InitialLocalStates : \E rs \in InitialRemoteStates :
       \E u \in Draws : NewPeerReturn(p, ls, rs, u)
    \/ \E p \in Peers : NewPeerFails(p)
    \/ \E p \in Peers : \E k \in Keys : \E h \in Hashes \cup {Null} : \E u \in Draws :
            UpdateLocalState(p, k, h, u)
    \/ \E p \in Peers : \E u \in Draws : HeartbeatTimerFires(p, u)
    \/ \E c \in ConnKeys : AddConnection(c)
    \/ \E c \in ConnKeys : DeleteConnection(c)

\* messages that carry no hashset: beacons of other engines and state requests
Bodyless(p) == { m \in Messages(p) : ~m.hasHashset }

\* the peers that answer the beacons of an engine that was given extra targets
Managers == {"s1"}

\* the beacon phase of an engine that was given extra targets
NextBeacon ==
    \/ \E t \in Targets : AddTarget(t)
    \/ \E b \in BackboneIds : AddConnection(b)
    \/ \E b \in BackboneIds : DeleteConnection(b)
    \/ \E c \in ConnKeys \cup {"net"} : OnSendable(c)
    \/ BeaconTimerFires
    \/ \E p \in Managers : \E m \in Bodyless(p) : OnMessage(p, m)
    \/ \E p \in Managers : ProcessWorkQueueNext(p)
    \/ \E p \in Managers : \E ls \in InitialLocalStates : \E rs \in InitialRemoteStates :
            NewPeerReturn(p, ls, rs, 0)
    \/ \E p \in Managers : NewPeerFails(p)
    \/ \E p \in Managers : StateRequestReturn(p)

\* ------------------------------------------------------------------------
\* The management controller's bridge to the engine (sync-management.js)
\* ------------------------------------------------------------------------
\* the pieces of a backbone site's advertised state and the notification
\* that a change to one of them calls: tls-site SiteCertificateChanged,
\* tls-server AccessCertificateChanged, access SiteIngressChanged, link
\* LinkChanged
Kinds == {"tls-site", "tls-server", "access", "link"}

\* pieces that the API can delete: access points and inter-router links
Deletable == {"access", "link"}

NotRead == [read |-> FALSE, state |-> EmptyMap]

\* the module's own peers map: onNewPeer enters the peer before its first
\* await (line 499), that is when the engine calls it for the first heartbeat
\* of the peer, and nothing in the engine calls onPeerLost
BridgePeers == { p \in Peers : task[p].pc = "newpeer" \/ peers[p].known }

\* a transaction of the API or of the certificate reconciler commits a change
\* to one piece of a site's state and calls the notification of its kind
Mutate(p, k, h, kind) ==
    /\ mutations < MaxMutations
    /\ mutations' = mutations + 1
    /\ h # database[p][k]
    /\ h = None => kind \in Deletable
    /\ pieces[k] \in {None, kind}
    /\ pieces' = [pieces EXCEPT ![k] = kind]
    /\ database' = [database EXCEPT ![p][k] = h]
    /\ notify' = notify \cup {[site |-> p, key |-> k, kind |-> kind]}
    /\ UNCHANGED snapshot
    /\ UNCHANGED <<peers, connections, processingContext, task, initialBeacon, arrived,
                   completed, drains, log, beatVars>>
    /\ UNCHANGED nonBridgeVars

\* onNewBackboneSite lines 96-153: the hashes of the site's pieces are read
\* from the database into localState
OnNewBackboneSiteReads(p) ==
    /\ task[p].pc = "newpeer"
    /\ ~snapshot[p].read
    /\ snapshot' = [snapshot EXCEPT ![p] = [read |-> TRUE, state |-> database[p]]]
    /\ UNCHANGED <<database, notify, mutations, pieces>>
    /\ UNCHANGED <<peers, connections, processingContext, task, initialBeacon, arrived,
                   completed, drains, log, beatVars>>
    /\ UNCHANGED nonBridgeVars

\* onNewPeer returns what onNewBackboneSite has built
OnNewPeerReturn(p, rs) ==
    /\ snapshot[p].read
    /\ NewPeerReturn(p, snapshot[p].state, rs, 0)

\* the hash a notification computes from the rows it selects: null when the
\* row is gone
HashRead(n) == IF database[n.site][n.key] = None THEN Null ELSE database[n.site][n.key]

\* LinkChanged line 677: client is not declared in the function or in the
\* module, so that the first statement of the try block raises, and so do
\* the handler and the finally block
ClientDeclared(kind) == kind # "link"

\* what a notification tells the engine: the certificate notifications find
\* no row and do nothing when the piece is gone
CallsUpdate(n) ==
    /\ n.site \in BridgePeers
    /\ ClientDeclared(n.kind)
    /\ n.kind \in {"tls-site", "tls-server"} => database[n.site][n.key] # None

\* SiteCertificateChanged, AccessCertificateChanged, SiteIngressChanged and
\* LinkChanged: the notification n runs
ChangeNotification(n) ==
    /\ n \in notify
    /\ notify' = notify \ {n}
    /\ IF CallsUpdate(n)
       THEN LocalStateUpdate(n.site, n.key, HashRead(n), 0)
       ELSE UNCHANGED <<peers, connections, processingContext, task, initialBeacon, arrived,
                        completed, drains, log, beatVars>>
    /\ UNCHANGED <<database, snapshot, mutations, pieces>>
    /\ UNCHANGED nonBridgeVars

\* a backbone site is discovered while its certificate is being replaced
NextRace ==
    \/ \E c \in ConnKeys : AddConnection(c)
    \/ \E p \in Managers : \E m \in Beacons(p) : OnMessage(p, m)
    \/ \E p \in Managers : ProcessWorkQueueNext(p)
    \/ \E p \in Managers : OnNewBackboneSiteReads(p)
    \/ \E p \in Managers : \E rs \in InitialRemoteStates : OnNewPeerReturn(p, rs)
    \/ \E p \in Managers : \E k \in Keys : \E h \in Hashes : Mutate(p, k, h, "tls-site")
    \/ \E n \in notify : ChangeNotification(n)

\* C31: once a peer is tracked and no change notification for it is still to
\* run, its localState holds the hashes of what the database holds: a change
\* committed while onNewPeer was awaited is not lost.
C31_NoChangeLostDuringNewPeer ==
    \A p \in Peers :
        (peers[p].known /\ \A n \in notify : n.site # p) =>
            peers[p].localState = database[p]

\* the pieces of a backbone site change while the site is, or is becoming, a
\* peer of the engine
NextBridge ==
    \/ \E c \in ConnKeys : AddConnection(c)
    \/ \E p \in Managers : \E m \in Beacons(p) : OnMessage(p, m)
    \/ \E p \in Managers : ProcessWorkQueueNext(p)
    \/ \E p \in Managers : OnNewBackboneSiteReads(p)
    \/ \E p \in Managers : \E rs \in InitialRemoteStates : OnNewPeerReturn(p, rs)
    \/ \E p \in Managers : \E k \in Keys : \E h \in Hashes \cup {None} : \E kind \in Kinds :
            Mutate(p, k, h, kind)
    \/ \E n \in notify : ChangeNotification(n)

\* C36: when the notification of a committed change runs for a peer that the
\* engine tracks and can send to, the peer's localState afterwards holds the
\* hash of what the database now holds for that piece (no key when the piece
\* was deleted) and a heartbeat with the updated manifest is sent to the peer.
C36_ChangeReachesKnownPeer ==
    [][\A n \in notify :
          (/\ ChangeNotification(n)
           /\ peers[n.site].known
           /\ CanSend(peers[n.site], connections)) =>
              /\ peers'[n.site].localState[n.key] = database[n.site][n.key]
              /\ heartbeats'[n.site] =
                    Append(heartbeats[n.site], Heartbeat(peers'[n.site].localState))]_vars

\* ------------------------------------------------------------------------
\* Properties of the state-sync engine
\* ------------------------------------------------------------------------
Busy(p) == task[p].pc # "idle"
Differs(t, k) == t.msg.hashset[k] # None /\ t.msg.hashset[k] # t.rs0[k]
Dropped(t, k) == t.rs0[k] # None /\ t.msg.hashset[k] = None
DeletionsDone(t) == t.reconciled /\ t.pc \in {"requesting", "applying", "returned"}
NullCalls(t, k) == { i \in 1..Len(t.calls) : t.calls[i] = [key |-> k, hash |-> Null] }

C10_DeletionsApplied ==
    \A p \in Peers :
        LET t == task[p] IN
        DeletionsDone(t) =>
          /\ \A k \in Keys :
                /\ Dropped(t, k) => Cardinality(NullCalls(t, k)) = 1
                /\ (Dropped(t, k) /\ k \notin t.delThrew) => peers[p].remoteState[k] = None
                /\ ~Dropped(t, k) /\ t.msg.hashset[k] = None => NullCalls(t, k) = {}
          /\ \A k \in Keys :
                (peers[p].remoteState[k] # None /\ t.msg.hashset[k] = None) => k \in t.delThrew

\* C10 witness: a heartbeat of a known peer dropped a key, the callback
\* returned and the key is gone from remoteState.
C10_Witness ==
    \E p \in Peers :
        LET t == task[p] IN
        /\ t.known /\ DeletionsDone(t) /\ t.pc = "returned"
        /\ \E k \in Keys : Dropped(t, k) /\ k \notin t.delThrew /\ peers[p].remoteState[k] = None

\* C10 as stated: once the heartbeat has been processed remoteState holds no
\* key that is absent from the hashset.
C10_NoStaleKeyAfterHeartbeat ==
    \A p \in Peers :
        LET t == task[p] IN
        (t.known /\ t.reconciled /\ t.pc = "returned") =>
            \A k \in Keys : peers[p].remoteState[k] # None => t.msg.hashset[k] # None

\* keys whose pull failed while an earlier message of peer p was processed,
\* and while the current one is
FailedBefore(p) ==
    { log[p][i].key : i \in { j \in 1..Len(log[p]) :
                                log[p][j].ev = "fail" /\ log[p][j].seq < task[p].msg.seq } }
FailedNow(p) ==
    { log[p][i].key : i \in { j \in 1..Len(log[p]) :
                                log[p][j].ev = "fail" /\ log[p][j].seq = task[p].msg.seq } }
Pulled(t, k) == \E i \in 1..Len(t.gets) : t.gets[i] = k

C12_ChangesFollowPullOrder ==
    \A p \in Peers :
        LET l == log[p] IN
        /\ \A i \in 1..Len(l) - 1 : l[i].seq <= l[i + 1].seq
        /\ \A i \in 1..Len(l) :
              l[i].ev = "change" =>
                  i > 1 /\ l[i - 1] = [ev |-> "get", key |-> l[i].key, seq |-> l[i].seq]
        /\ \A i \in 1..Len(l) :
              l[i].ev = "get" => (i = 1 \/ l[i - 1].ev \in {"done", "fail"})

\* C12 witness: onStateChange has been called for pulled keys of two
\* consecutive heartbeats of one peer.
C12_Witness ==
    \E p \in Peers :
        \E i, j \in 1..Len(log[p]) :
            /\ i < j
            /\ log[p][i].ev = "change" /\ log[p][j].ev = "change"
            /\ log[p][j].seq = log[p][i].seq + 1

\* C13: when onNewPeer returns for the first heartbeat of an unknown peer, the
\* returned manifests become the peer's tracked state and a heartbeat whose
\* hashset is the returned localState is sent to the peer in the same step.
C13_NewPeerAdoptedAndGreeted ==
    [][\A p \in Peers : \A ls \in InitialLocalStates : \A rs \in InitialRemoteStates :
       \A u \in Draws :
          NewPeerReturn(p, ls, rs, u) =>
              /\ ~peers[p].known
              /\ peers'[p].known
              /\ peers'[p].localState = ls /\ peers'[p].remoteState = rs
              /\ heartbeats'[p] =
                    Append(heartbeats[p], [op |-> "HB", hasHashset |-> TRUE, hashset |-> ls])]_vars

\* C14: UpdateLocalState on a known peer stores the hash (or removes the key
\* for a null hash), sends the peer a heartbeat with the updated manifest and
\* leaves exactly one heartbeat timer pending.
C14_UpdateSendsHeartbeat ==
    [][\A p \in Peers : \A k \in Keys : \A h \in Hashes \cup {Null} : \A u \in Draws :
          (UpdateLocalState(p, k, h, u) /\ peers[p].known) =>
              /\ peers'[p].localState[k] = (IF h = Null THEN None ELSE h)
              /\ heartbeats'[p] =
                    Append(heartbeats[p],
                           [op |-> "HB", hasHashset |-> TRUE, hashset |-> peers'[p].localState])
              /\ timers[p] <= 1 /\ timers'[p] = 1]_vars

\* C24: every known peer has a heartbeat timer pending, so that heartbeats
\* keep being sent to it, and the delay of a heartbeat timer is between
\* period and period + window seconds (10 to 15 seconds).
C24_HeartbeatsKeepBeingSent ==
    \A p \in Peers :
        peers[p].known =>
            /\ peers[p].hbTimer /\ timers[p] >= 1
            /\ armedDelay \in (HEARTBEAT_PERIOD_SECONDS * 1000) ..
                              ((HEARTBEAT_PERIOD_SECONDS + HEARTBEAT_WINDOW_SECONDS) * 1000)

\* a heartbeat has been received: one has been handled or waits in a queue
AnyHeartbeatReceived ==
    \/ ~initialBeacon
    \/ \E p \in Peers : \E i \in DOMAIN processingContext[p].workQueue :
            processingContext[p].workQueue[i].op = "HB"

\* C25: once the beacon phase has started and until a heartbeat is received,
\* exactly one 5-second beacon timer is pending; every beacon is a heartbeat
\* without hashset, one for each extra target per round over "net"; no
\* beacon is sent once a heartbeat has been received.
C25_BeaconEveryFiveSeconds ==
    /\ [](Len(beaconTimers) <= 1)
    /\ []((rounds > 0 /\ ~AnyHeartbeatReceived) => beaconTimers = <<BEACON_DELAY_MSEC>>)
    /\ [][sentBeacons' # sentBeacons =>
            /\ ~AnyHeartbeatReceived
            /\ sentBeacons' = sentBeacons \o
                    [i \in 1..Len(extraTargets) |->
                        [to |-> extraTargets[i], connectionKey |-> "net",
                         body |-> [op |-> "HB", hasHashset |-> FALSE, hashset |-> EmptyMap],
                         round |-> rounds']]]_vars

\* C26: the connection mappings are those of the sessions added and not
\* deleted, each under its backboneId or under "net", and deleting a session
\* leaves every peer record as it was.
C26_DeleteRemovesExactlyTheMapping ==
    /\ [](connections = { ConnectionKey(b) : b \in sessions })
    /\ [][sessions' # sessions => peers' = peers]_vars

\* ------------------------------------------------------------------------
\* Claim server (claim-server.js)
\* ------------------------------------------------------------------------
Claims == 1..MaxClaims          \* claim c creates member c (RETURNING Id)
Outcomes == {"result", "error"} \* what memberCompletion returns

NoSlot == [exists |-> FALSE, outcome |-> None, callback |-> FALSE]
NewSlot == [exists |-> TRUE, outcome |-> None, callback |-> FALSE]
NoClaim == [pc |-> "none", instancecount |-> 0, reply |-> None]

\* lines 193-199: the reply of processClaim for a settled completion
StatusOf(outcome) == IF outcome = "result" THEN "200" ELSE "500"

\* lines 173-175: `claim.instancelimit && instancecount == instancelimit`
LimitReached(count) == InstanceLimit # 0 /\ count = InstanceLimit

\* lines 134-143: the installed callback removes the slot and settles the
\* promise the claim is waiting on with what the slot holds
CallbackOutcome(slot) == IF slot.outcome \in Outcomes THEN slot.outcome ELSE "spurious"

Callback(m, slot) ==
    /\ memberCompletions' = [memberCompletions EXCEPT ![m] = NoSlot]
    /\ claim' = [claim EXCEPT ![m].pc = "replied",
                              ![m].reply = StatusOf(CallbackOutcome(slot))]
    /\ resolved' = [resolved EXCEPT ![m] = [count |-> @.count + 1,
                                            outcome |-> CallbackOutcome(slot)]]

BlockNeverSettles(slot) == FALSE

\* line 144: the completion already stored a result or an error
BlockSettlesNow(slot) == slot.outcome # None

\* lines 157-160: BEGIN and the SELECT of the invitation (plain read of the
\* committed row, no row lock)
ClaimSelect(c) ==
    /\ claim[c].pc = "none"
    /\ IF invitation.expired \/ LimitReached(invitation.instancecount)
       THEN claim' = [claim EXCEPT ![c].pc = "replied", ![c].reply = "400"]
       ELSE claim' = [claim EXCEPT ![c].pc = "selected",
                                   ![c].instancecount = invitation.instancecount]
    /\ UNCHANGED <<invitation, memberSites, memberCompletions, completion, resolved>>
    /\ UNCHANGED nonClaimVars

\* line 180: UPDATE InstanceCount = (value read) + 1; waits for the row lock
ClaimUpdate(c) ==
    /\ claim[c].pc = "selected"
    /\ invitation.lock = 0
    /\ invitation' = [invitation EXCEPT !.lock = c]
    /\ claim' = [claim EXCEPT ![c].pc = "updated"]
    /\ UNCHANGED <<memberSites, memberCompletions, completion, resolved>>
    /\ UNCHANGED nonClaimVars

\* lines 185-196: INSERT INTO MemberSites, then the slot is registered
ClaimInsert(c) ==
    /\ claim[c].pc = "updated"
    /\ claim' = [claim EXCEPT ![c].pc = "inserted"]
    /\ memberCompletions' = [memberCompletions EXCEPT ![c] = NewSlot]
    /\ UNCHANGED <<invitation, memberSites, completion, resolved>>
    /\ UNCHANGED nonClaimVars

\* line 197: COMMIT makes the count and the member row visible
ClaimCommit(c) ==
    /\ claim[c].pc = "inserted"
    /\ invitation' = [invitation EXCEPT !.lock = 0,
                                        !.instancecount = claim[c].instancecount + 1]
    /\ memberSites' = memberSites \cup {c}
    /\ claim' = [claim EXCEPT ![c].pc = "committed"]
    /\ UNCHANGED <<memberCompletions, completion, resolved>>
    /\ UNCHANGED nonClaimVars

\* lines 198-203: a failing query raises; ROLLBACK, status 400
ClaimDbError(c) ==
    /\ claim[c].pc \in {"selected", "updated", "inserted"}
    /\ invitation' = [invitation EXCEPT !.lock = IF @ = c THEN 0 ELSE @]
    /\ claim' = [claim EXCEPT ![c].pc = "replied", ![c].reply = "400"]
    /\ UNCHANGED <<memberSites, memberCompletions, completion, resolved>>
    /\ UNCHANGED nonClaimVars

\* line 160: ClientFromPool() is awaited outside the try block; when it
\* rejects, processClaim rejects and the onClaim callback of onMessage never
\* reaches onReply
ClaimNoClient(c) ==
    /\ claim[c].pc = "none"
    /\ claim' = [claim EXCEPT ![c].pc = "unanswered"]
    /\ UNCHANGED <<invitation, memberSites, memberCompletions, completion, resolved>>
    /\ UNCHANGED nonClaimVars

\* line 198: a query failed and the ROLLBACK in the catch block raises as
\* well (the session is gone); the database drops the transaction
ClaimRollbackFails(c) ==
    /\ claim[c].pc \in {"selected", "updated", "inserted"}
    /\ invitation' = [invitation EXCEPT !.lock = IF @ = c THEN 0 ELSE @]
    /\ claim' = [claim EXCEPT ![c].pc = "unanswered"]
    /\ UNCHANGED <<memberSites, memberCompletions, completion, resolved>>
    /\ UNCHANGED nonClaimVars

\* lines 206-208, 131-149: after COMMIT the claim installs its callback and
\* runs it at once when the completion is already stored
BlockForCompletion(c) ==
    /\ claim[c].pc = "committed"
    /\ IF BlockSettlesNow(memberCompletions[c])
       THEN Callback(c, memberCompletions[c])
       ELSE /\ memberCompletions' = [memberCompletions EXCEPT ![c].callback = TRUE]
            /\ claim' = [claim EXCEPT ![c].pc = "blocked"]
            /\ resolved' = resolved
    /\ UNCHANGED <<invitation, memberSites, completion>>
    /\ UNCHANGED nonClaimVars

\* lines 281-283: the certificate of a committed member is ready;
\* CompleteMember looks the slot up and starts memberCompletion
CompleteMemberStart(m) ==
    /\ m \in memberSites
    /\ completion[m].pc = "none"
    /\ completion' = [completion EXCEPT ![m].pc =
                         IF memberCompletions[m].exists THEN "running" ELSE "done"]
    /\ UNCHANGED <<invitation, memberSites, claim, memberCompletions, resolved>>
    /\ UNCHANGED nonClaimVars

\* lines 285-290: memberCompletion returned [result, error]; store it and run
\* the callback when one is installed
CompleteMemberFinish(m, outcome) ==
    /\ completion[m].pc = "running"
    /\ completion' = [completion EXCEPT ![m] =
           [pc |-> "done", outcome |-> outcome,
            first |-> ~memberCompletions[m].callback]]
    /\ IF memberCompletions[m].callback
       THEN Callback(m, [memberCompletions[m] EXCEPT !.outcome = outcome])
       ELSE /\ memberCompletions' = [memberCompletions EXCEPT ![m].outcome = outcome]
            /\ UNCHANGED <<claim, resolved>>
    /\ UNCHANGED <<invitation, memberSites>>
    /\ UNCHANGED nonClaimVars

\* memberCompletion lines 55, 119: ClientFromPool() or the ROLLBACK of the
\* catch block raises, so CompleteMember rejects at line 283 and stores
\* neither a result nor an error
CompleteMemberRaises(m) ==
    /\ completion[m].pc = "running"
    /\ completion' = [completion EXCEPT ![m].pc = "raised"]
    /\ UNCHANGED <<invitation, memberSites, claim, memberCompletions, resolved>>
    /\ UNCHANGED nonClaimVars

\* the JoinDeadline of the invitation passes
DeadlinePasses ==
    /\ ~invitation.expired
    /\ invitation' = [invitation EXCEPT !.expired = TRUE]
    /\ UNCHANGED <<memberSites, claim, memberCompletions, completion, resolved>>
    /\ UNCHANGED nonClaimVars

\* expireInvitation: UPDATE MemberInvitations SET Lifecycle = 'expired'
ExpireInvitation ==
    /\ invitation.lifecycle # "expired"
    /\ invitation' = [invitation EXCEPT !.lifecycle = "expired"]
    /\ UNCHANGED <<memberSites, claim, memberCompletions, completion, resolved>>
    /\ UNCHANGED nonClaimVars

InitClaim ==
    /\ invitation = [instancecount |-> 0, lock |-> 0, expired |-> FALSE, lifecycle |-> "ready"]
    /\ memberSites = {}
    /\ claim = [c \in Claims |-> NoClaim]
    /\ memberCompletions = [c \in Claims |-> NoSlot]
    /\ completion = [c \in Claims |-> [pc |-> "none", outcome |-> None, first |-> FALSE]]
    /\ resolved = [c \in Claims |-> [count |-> 0, outcome |-> None]]

NextClaim ==
    \/ \E c \in Claims : ClaimSelect(c)
    \/ \E c \in Claims : ClaimUpdate(c)
    \/ \E c \in Claims : ClaimInsert(c)
    \/ \E c \in Claims : ClaimCommit(c)
    \/ \E c \in Claims : ClaimDbError(c)
    \/ \E c \in Claims : BlockForCompletion(c)
    \/ \E m \in Claims : CompleteMemberStart(m)
    \/ \E m \in Claims : \E outcome \in Outcomes : CompleteMemberFinish(m, outcome)
    \/ DeadlinePasses
    \/ \E c \in Claims : ClaimNoClient(c)
    \/ \E c \in Claims : ClaimRollbackFails(c)
    \/ \E m \in Claims : CompleteMemberRaises(m)

\* claim assertions for an invitation that expires, by its deadline or
\* through the API
NextInvitation ==
    \/ \E c \in Claims : ClaimSelect(c)
    \/ \E c \in Claims : ClaimUpdate(c)
    \/ \E c \in Claims : ClaimInsert(c)
    \/ \E c \in Claims : ClaimCommit(c)
    \/ \E c \in Claims : ClaimDbError(c)
    \/ \E c \in Claims : BlockForCompletion(c)
    \/ DeadlinePasses
    \/ ExpireInvitation

\* every handler that has been started runs on, and the certificate of a
\* committed member is issued in the end, which calls CompleteMember
ProcessClaimStep(c) ==
    \/ ClaimUpdate(c) \/ ClaimInsert(c) \/ ClaimCommit(c) \/ ClaimDbError(c)
    \/ ClaimRollbackFails(c) \/ BlockForCompletion(c)
CompleteMemberStep(m) ==
    \/ CompleteMemberStart(m) \/ CompleteMemberRaises(m)
    \/ \E outcome \in Outcomes : CompleteMemberFinish(m, outcome)
FairClaim ==
    \A c \in Claims : WF_vars(ProcessClaimStep(c)) /\ WF_vars(CompleteMemberStep(c))

\* ------------------------------------------------------------------------
\* Properties of the claim server
\* ------------------------------------------------------------------------
\* C2: at most InstanceLimit MemberSites rows are ever created for the
\* invitation, also when claim assertions are processed concurrently.
C2_AtMostLimitMembers == Cardinality(memberSites) <= InstanceLimit

\* C3: the waiting claim of a registered slot is resolved at most once; once
\* the completion has fired and the callback has been installed, in either
\* order, it has been resolved exactly once, with the outcome the completion
\* produced, and replied accordingly.
C3_ResolvedExactlyOnce ==
    \A m \in Claims :
        /\ resolved[m].count <= 1
        /\ resolved[m].count = 1 =>
              /\ resolved[m].outcome = completion[m].outcome
              /\ completion[m].outcome \in Outcomes
              /\ claim[m].reply = StatusOf(completion[m].outcome)
        /\ (completion[m].outcome \in Outcomes /\ claim[m].pc \in {"blocked", "replied"}
              /\ m \in memberSites)
              => resolved[m].count = 1

\* the completion fired before the callback was installed and the claim was
\* still resolved with its result
C3_Witness ==
    \E m \in Claims :
        /\ completion[m].first
        /\ resolved[m] = [count |-> 1, outcome |-> "result"]
        /\ claim[m].reply = "200"

\* an invitation is expired when its JoinDeadline has passed or its
\* Lifecycle is 'expired'
Expired(inv) == inv.expired \/ inv.lifecycle = "expired"

\* C33: when processClaim selects an invitation that is expired, the claim
\* is answered with a failure reply, and the invitation's InstanceCount and
\* the MemberSites rows stay as they are.
C33_ExpiredInvitationRejected ==
    [][\A c \in Claims :
          (ClaimSelect(c) /\ Expired(invitation)) =>
              /\ claim'[c].reply \in {"400", "500"}
              /\ invitation'.instancecount = invitation.instancecount
              /\ memberSites' = memberSites]_vars

\* C34: no completion slot is left in memberCompletions for a claim that has
\* been answered, whether its transaction failed to commit or its completion
\* was delivered.
C34_NoSlotAfterAnswer ==
    \A c \in Claims : claim[c].pc = "replied" => ~memberCompletions[c].exists

\* C16: every claim assertion whose processing has begun is answered in the
\* end, with a 200 reply or with a failure reply.
C16_EveryClaimAnswered ==
    \A c \in Claims : (claim[c].pc # "none") ~> (claim[c].reply \in {"200", "400", "500"})

\* ------------------------------------------------------------------------
\* Certificate pipeline (certs.js, kube.js ApplyObject, mc-apiserver.js
\* AddHostToAccessPoint, sync-management.js onStateChangeBackbone)
\* ------------------------------------------------------------------------
\* one row of a root kind and one of each of two dependent kinds: a
\* backbone, an access point of one of its sites, and an interior site
Ents == {"bb", "ap", "site"}
AccessEnts == {"bb", "ap"}
SiteEnts == {"bb", "site"}
RequestIds == 1..MaxRequests
Host == "h1"
Port == "p1"
Date == "date"

\* the join of the kind's `new` predicate: an access point waits for its
\* backbone to be ready
ParentReady(e, ent) == e = "bb" \/ ent["bb"].lifecycle = "ready"

Exists(e, ent) == ent[e].lifecycle # "deleted"

\* the lifecycle column of the interior site after a commit, appended to the
\* values it has held when the commit changed it
Visited(traj, ent, after) ==
    IF after["site"].lifecycle # ent["site"].lifecycle
    THEN Append(traj, after["site"].lifecycle)
    ELSE traj

RequestsFor(e) == { r \in requests : r.ent = e }
RequestWithId(id) == { r \in requests : r.id = id }
TlsWithId(id) == { c \in tlsCertificates : c.id = id }

\* ---- processNew<Kind> (certs.js:2276-2560)
\* BEGIN; SELECT one row with the kind's `new` predicate
ReconcilerSelect(e) ==
    /\ reconciler[e] = "idle"
    /\ entity[e].lifecycle = "new"
    /\ ParentReady(e, entity)
    /\ nextRequestId <= MaxRequests
    /\ reconciler' = [reconciler EXCEPT ![e] = "selected"]
    /\ UNCHANGED <<entity, requests, tlsCertificates, nextRequestId, clusterCerts, issuers,
                   secrets, secretEvents, certEvents, requestLoop, secretTx, addHost>>
    /\ UNCHANGED trajectory
    /\ UNCHANGED <<syncVars, claimVars, deployVars, linkVars, amqpVars>>

\* INSERT INTO CertificateRequests and UPDATE <table> SET Lifecycle =
\* 'skx_cr_created': written, not yet committed
ReconcilerWrite(e) ==
    /\ reconciler[e] = "selected"
    /\ reconciler' = [reconciler EXCEPT ![e] = "written"]
    /\ UNCHANGED <<entity, requests, tlsCertificates, nextRequestId, clusterCerts, issuers,
                   secrets, secretEvents, certEvents, requestLoop, secretTx, addHost>>
    /\ UNCHANGED trajectory
    /\ UNCHANGED <<syncVars, claimVars, deployVars, linkVars, amqpVars>>

\* the row is marked with the lifecycle of its request
ReconcilerCommittedAsRequest(e, ent, reqs, id) ==
    [entity |-> [ent EXCEPT ![e].lifecycle = "cm_cert_created"],
     requests |-> reqs \cup {[id |-> id, ent |-> e, lifecycle |-> "new"]}]

\* what COMMIT of the reconciler makes visible: the request row and the new
\* lifecycle, together
ReconcilerCommitted(e, ent, reqs, id) ==
    [entity |-> [ent EXCEPT ![e].lifecycle = "skx_cr_created"],
     requests |-> reqs \cup {[id |-> id, ent |-> e, lifecycle |-> "new"]}]

\* COMMIT; the insert fails on its foreign key when the row was deleted
ReconcilerCommit(e) ==
    /\ reconciler[e] = "written"
    /\ reconciler' = [reconciler EXCEPT ![e] = "idle"]
    /\ IF Exists(e, entity)
       THEN /\ entity' = ReconcilerCommitted(e, entity, requests, nextRequestId).entity
            /\ requests' = ReconcilerCommitted(e, entity, requests, nextRequestId).requests
            /\ nextRequestId' = nextRequestId + 1
       ELSE UNCHANGED <<entity, requests, nextRequestId>>
    /\ UNCHANGED <<tlsCertificates, clusterCerts, issuers,
                   secrets, secretEvents, certEvents, requestLoop, secretTx, addHost>>
    /\ trajectory' = Visited(trajectory, entity, entity')
    /\ UNCHANGED <<syncVars, claimVars, deployVars, linkVars, amqpVars>>

\* a query raises: ROLLBACK, nothing of the transaction becomes visible
ReconcilerError(e) ==
    /\ reconciler[e] \in {"selected", "written"}
    /\ reconciler' = [reconciler EXCEPT ![e] = "idle"]
    /\ UNCHANGED <<entity, requests, tlsCertificates, nextRequestId, clusterCerts, issuers,
                   secrets, secretEvents, certEvents, requestLoop, secretTx, addHost>>
    /\ UNCHANGED trajectory
    /\ UNCHANGED <<syncVars, claimVars, deployVars, linkVars, amqpVars>>

\* ---- processNewCertificateRequests (certs.js:2567-2659)
NewRequestIds == { r.id : r \in { q \in requests : q.lifecycle = "new" } }

\* ORDER BY CreatedTime LIMIT 1: ids are handed out in creation order
OldestNew == CHOOSE id \in NewRequestIds : \A other \in NewRequestIds : id <= other

RequestSelect ==
    /\ requestLoop.pc = "idle"
    /\ NewRequestIds # {}
    /\ requestLoop' = [pc |-> "selected", id |-> OldestNew]
    /\ UNCHANGED <<entity, requests, tlsCertificates, nextRequestId, clusterCerts, issuers,
                   secrets, secretEvents, certEvents, reconciler, secretTx, addHost>>
    /\ UNCHANGED trajectory
    /\ UNCHANGED <<syncVars, claimVars, deployVars, linkVars, amqpVars>>

\* kube.js:512-527 ApplyObject: create the object; a failure of the create
\* (API error, name already taken) is logged and not raised
ApplyObject(objects, name, ok) ==
    IF ok /\ objects[name] = "none" THEN [objects EXCEPT ![name] = "pending"] ELSE objects

\* line 2646: await ApplyObject(cert_obj)
RequestApply(ok) ==
    /\ requestLoop.pc = "selected"
    /\ clusterCerts' = ApplyObject(clusterCerts, requestLoop.id, ok)
    /\ requestLoop' = [requestLoop EXCEPT !.pc = "applied"]
    /\ UNCHANGED <<entity, requests, tlsCertificates, nextRequestId, issuers,
                   secrets, secretEvents, certEvents, reconciler, secretTx, addHost>>
    /\ UNCHANGED trajectory
    /\ UNCHANGED <<syncVars, claimVars, deployVars, linkVars, amqpVars>>

\* lines 2647-2650: UPDATE CertificateRequests SET Lifecycle = 'cm_cert_created'; COMMIT
RequestCommit ==
    /\ requestLoop.pc = "applied"
    /\ requests' = { IF r.id = requestLoop.id THEN [r EXCEPT !.lifecycle = "cm_cert_created"] ELSE r
                     : r \in requests }
    /\ requestLoop' = [pc |-> "idle", id |-> 0]
    /\ UNCHANGED <<entity, tlsCertificates, nextRequestId, clusterCerts, issuers,
                   secrets, secretEvents, certEvents, reconciler, secretTx, addHost>>
    /\ UNCHANGED trajectory
    /\ UNCHANGED <<syncVars, claimVars, deployVars, linkVars, amqpVars>>

\* lines 2651-2654: a query raises; ROLLBACK (the cluster object stays)
RequestError ==
    /\ requestLoop.pc \in {"selected", "applied"}
    /\ requestLoop' = [pc |-> "idle", id |-> 0]
    /\ UNCHANGED <<entity, requests, tlsCertificates, nextRequestId, clusterCerts, issuers,
                   secrets, secretEvents, certEvents, reconciler, secretTx, addHost>>
    /\ UNCHANGED trajectory
    /\ UNCHANGED <<syncVars, claimVars, deployVars, linkVars, amqpVars>>

\* ---- cert-manager in the cluster
\* the secret of a certificate object appears; the watch reports ADDED
ClusterCreatesSecret(id) ==
    /\ clusterCerts[id] # "none"
    /\ id \notin secrets
    /\ secrets' = secrets \cup {id}
    /\ secretEvents' = secretEvents \cup {id}
    /\ UNCHANGED <<entity, requests, tlsCertificates, nextRequestId, clusterCerts, issuers,
                   certEvents, reconciler, requestLoop, secretTx, addHost>>
    /\ UNCHANGED trajectory
    /\ UNCHANGED <<syncVars, claimVars, deployVars, linkVars, amqpVars>>

\* the certificate status gets notAfter and renewalTime; the watch reports
\* MODIFIED
ClusterSetsStatus(id) ==
    /\ clusterCerts[id] = "pending"
    /\ clusterCerts' = [clusterCerts EXCEPT ![id] = "issued"]
    /\ certEvents' = certEvents \cup {id}
    /\ UNCHANGED <<entity, requests, tlsCertificates, nextRequestId, issuers,
                   secrets, secretEvents, reconciler, requestLoop, secretTx, addHost>>
    /\ UNCHANGED trajectory
    /\ UNCHANGED <<syncVars, claimVars, deployVars, linkVars, amqpVars>>

\* ---- secretAdded (certs.js:2665-2781)
\* lines 2668-2669, 2722: BEGIN, SELECT the request, LoadCertificate; with
\* no such request the transaction is rolled back
SecretAddedSelect(id) ==
    /\ id \in secretEvents
    /\ secretTx[id].pc = "idle"
    /\ secretEvents' = secretEvents \ {id}
    /\ secretTx' = IF RequestWithId(id) # {}
                   THEN [secretTx EXCEPT ![id] = [pc |-> "loaded", status |-> clusterCerts[id]]]
                   ELSE secretTx
    /\ UNCHANGED <<entity, requests, tlsCertificates, nextRequestId, clusterCerts, issuers,
                   secrets, certEvents, reconciler, requestLoop, addHost>>
    /\ UNCHANGED trajectory
    /\ UNCHANGED <<syncVars, claimVars, deployVars, linkVars, amqpVars>>

\* line 2723: notAfter ? new Date(notAfter) : undefined
ExpirationOf(status) == IF status = "issued" THEN Date ELSE Null

ResolvedCertificateUnset(dblink) == 0

\* line 2742: SET Certificate = dblink
ResolvedCertificate(dblink) == dblink

\* lines 2731-2750: the rows written by secretAdded for request req
Resolved(ent, req, status) ==
    [ent EXCEPT ![req.ent].lifecycle = "ready",
                ![req.ent].certificate = ResolvedCertificate(req.id)]

\* lines 2731-2751: INSERT TlsCertificates, UPDATE the entity, DELETE the
\* request, ApplyObject(issuer) for a CA, COMMIT
SecretAddedCommit(id, ok) ==
    /\ secretTx[id].pc = "loaded"
    /\ RequestWithId(id) # {}
    /\ LET req == CHOOSE r \in requests : r.id = id
       IN  /\ tlsCertificates' = tlsCertificates \cup
                  {[id |-> id, expiration |-> ExpirationOf(secretTx[id].status),
                    loaded |-> secretTx[id].status]}
           /\ entity' = Resolved(entity, req, secretTx[id].status)
           /\ requests' = requests \ {req}
           /\ issuers' = IF req.ent = "bb" /\ ok THEN issuers \cup {id} ELSE issuers
    /\ secretTx' = [secretTx EXCEPT ![id] = [pc |-> "idle", status |-> "none"]]
    /\ UNCHANGED <<nextRequestId, clusterCerts,
                   secrets, secretEvents, certEvents, reconciler, requestLoop, addHost>>
    /\ trajectory' = Visited(trajectory, entity, entity')
    /\ UNCHANGED <<syncVars, claimVars, deployVars, linkVars, amqpVars>>

\* lines 2772-2775: a query or LoadCertificate raises (also the name lookup
\* of a row that is gone); ROLLBACK
SecretAddedError(id) ==
    /\ secretTx[id].pc = "loaded"
    /\ secretTx' = [secretTx EXCEPT ![id] = [pc |-> "idle", status |-> "none"]]
    /\ UNCHANGED <<entity, requests, tlsCertificates, nextRequestId, clusterCerts, issuers,
                   secrets, secretEvents, certEvents, reconciler, requestLoop, addHost>>
    /\ UNCHANGED trajectory
    /\ UNCHANGED <<syncVars, claimVars, deployVars, linkVars, amqpVars>>

\* ---- onCertificateWatch (certs.js:2802-2818): MODIFIED with notAfter and
\* renewalTime updates the row of that object name, when there is one
OnCertificateWatch(id) ==
    /\ id \in certEvents
    /\ certEvents' = certEvents \ {id}
    /\ tlsCertificates' = { IF c.id = id THEN [c EXCEPT !.expiration = Date] ELSE c
                            : c \in tlsCertificates }
    /\ UNCHANGED <<entity, requests, nextRequestId, clusterCerts, issuers,
                   secrets, secretEvents, reconciler, requestLoop, secretTx, addHost>>
    /\ UNCHANGED trajectory
    /\ UNCHANGED <<syncVars, claimVars, deployVars, linkVars, amqpVars>>

\* ---- api-admin.js:63-125 createBackboneSite: INSERT INTO InteriorSites;
\* the Lifecycle column defaults to 'new'
CreateBackboneSite ==
    /\ entity["site"].lifecycle = "absent"
    /\ entity' = [entity EXCEPT !["site"].lifecycle = "new"]
    /\ trajectory' = Visited(trajectory, entity, entity')
    /\ UNCHANGED <<requests, tlsCertificates, nextRequestId, clusterCerts, issuers,
                   secrets, secretEvents, certEvents, reconciler, requestLoop, secretTx, addHost>>
    /\ UNCHANGED <<syncVars, claimVars, deployVars, linkVars, amqpVars>>

\* ---- api-admin.js:404-425 activateBackbone
ActivateBackbone ==
    /\ entity["bb"].lifecycle = "partial"
    /\ entity' = [entity EXCEPT !["bb"].lifecycle = "new"]
    /\ UNCHANGED <<requests, tlsCertificates, nextRequestId, clusterCerts, issuers,
                   secrets, secretEvents, certEvents, reconciler, requestLoop, secretTx, addHost,
          sites, accessPoints, links, notifications>>
    /\ UNCHANGED trajectory
    /\ UNCHANGED <<syncVars, claimVars, deployVars, linkVars, amqpVars>>

\* ---- sync-management.js onStateChangeBackbone: the site reports the
\* accessstatus data of its access point; data.host and data.port, present
\* or not, are written by UPDATE ... WHERE Lifecycle = 'partial'
OnStateChangeBackbone(host, port) ==
    /\ entity["ap"].lifecycle = "partial"
    /\ entity' = [entity EXCEPT !["ap"].lifecycle = "new", !["ap"].hostname = host,
                                !["ap"].port = port]
    /\ UNCHANGED <<requests, tlsCertificates, nextRequestId, clusterCerts, issuers,
                   secrets, secretEvents, certEvents, reconciler, requestLoop, secretTx, addHost,
          sites, accessPoints, links, notifications>>
    /\ UNCHANGED trajectory
    /\ UNCHANGED <<syncVars, claimVars, deployVars, linkVars, amqpVars>>

\* ---- mc-apiserver.js:445-481 AddHostToAccessPoint
\* lines 449-458: SELECT the access point; it must have no hostname and be
\* partial
AddHostSelect ==
    /\ addHost = "idle"
    /\ entity["ap"].lifecycle = "partial"
    /\ entity["ap"].hostname = Null
    /\ addHost' = "selected"
    /\ UNCHANGED <<entity, requests, tlsCertificates, nextRequestId, clusterCerts, issuers,
                   secrets, secretEvents, certEvents, reconciler, requestLoop, secretTx>>
    /\ UNCHANGED trajectory
    /\ UNCHANGED <<syncVars, claimVars, deployVars, linkVars, amqpVars>>

\* lines 460-462: UPDATE ... SET Hostname, Port, Lifecycle='new' WHERE Id; COMMIT
AddHostCommit ==
    /\ addHost = "selected"
    /\ addHost' = "idle"
    /\ entity' = IF Exists("ap", entity)
                 THEN [entity EXCEPT !["ap"].lifecycle = "new", !["ap"].hostname = Host,
                                     !["ap"].port = Port]
                 ELSE entity
    /\ UNCHANGED <<requests, tlsCertificates, nextRequestId, clusterCerts, issuers,
                   secrets, secretEvents, certEvents, reconciler, requestLoop, secretTx>>
    /\ UNCHANGED trajectory
    /\ UNCHANGED <<syncVars, claimVars, deployVars, linkVars, amqpVars>>

\* lines 473-476: a query raises; ROLLBACK
AddHostError ==
    /\ addHost = "selected"
    /\ addHost' = "idle"
    /\ UNCHANGED <<entity, requests, tlsCertificates, nextRequestId, clusterCerts, issuers,
                   secrets, secretEvents, certEvents, reconciler, requestLoop, secretTx>>
    /\ UNCHANGED trajectory
    /\ UNCHANGED <<syncVars, claimVars, deployVars, linkVars, amqpVars>>

\* ---- api-admin.js:524-568 deleteAccessPoint: the row, its certificate and
\* (by cascade) its requests go in one transaction
DeleteAccessPoint ==
    /\ Exists("ap", entity)
    /\ entity' = [entity EXCEPT !["ap"].lifecycle = "deleted", !["ap"].certificate = 0]
    /\ tlsCertificates' = tlsCertificates \ TlsWithId(entity["ap"].certificate)
    /\ requests' = requests \ RequestsFor("ap")
    /\ UNCHANGED <<nextRequestId, clusterCerts, issuers,
                   secrets, secretEvents, certEvents, reconciler, requestLoop, secretTx, addHost,
          sites, accessPoints, links, notifications>>
    /\ UNCHANGED trajectory
    /\ UNCHANGED <<syncVars, claimVars, deployVars, linkVars, amqpVars>>

InitCert ==
    /\ entity = [e \in Ents |->
                    [lifecycle |-> IF e = "site" THEN "absent" ELSE "partial",
                     certificate |-> 0, hostname |-> Null, port |-> Null]]
    /\ trajectory = <<>>
    /\ requests = {}
    /\ tlsCertificates = {}
    /\ nextRequestId = 1
    /\ clusterCerts = [id \in RequestIds |-> "none"]
    /\ issuers = {}
    /\ secrets = {}
    /\ secretEvents = {}
    /\ certEvents = {}
    /\ reconciler = [e \in Ents |-> "idle"]
    /\ requestLoop = [pc |-> "idle", id |-> 0]
    /\ secretTx = [id \in RequestIds |-> [pc |-> "idle", status |-> "none"]]
    /\ addHost = "idle"

NextCert ==
    \/ \E e \in AccessEnts : ReconcilerSelect(e)
    \/ \E e \in AccessEnts : ReconcilerWrite(e)
    \/ \E e \in AccessEnts : ReconcilerCommit(e)
    \/ \E e \in AccessEnts : ReconcilerError(e)
    \/ RequestSelect
    \/ \E ok \in BOOLEAN : RequestApply(ok)
    \/ RequestCommit
    \/ RequestError
    \/ \E id \in RequestIds : ClusterCreatesSecret(id)
    \/ \E id \in RequestIds : ClusterSetsStatus(id)
    \/ \E id \in RequestIds : SecretAddedSelect(id)
    \/ \E id \in RequestIds : \E ok \in BOOLEAN : SecretAddedCommit(id, ok)
    \/ \E id \in RequestIds : SecretAddedError(id)
    \/ \E id \in RequestIds : OnCertificateWatch(id)
    \/ ActivateBackbone
    \/ OnStateChangeBackbone(Host, Port)
    \/ AddHostSelect
    \/ AddHostCommit
    \/ AddHostError
    \/ DeleteAccessPoint

\* the pipeline with the site reporting whatever data it has
NextAccess ==
    \/ NextCert
    \/ \E host \in {Null, Host} : \E port \in {Null, Port} : OnStateChangeBackbone(host, port)

\* the pipeline for a backbone and one interior site of it
NextSite ==
    \/ \E e \in SiteEnts : ReconcilerSelect(e)
    \/ \E e \in SiteEnts : ReconcilerWrite(e)
    \/ \E e \in SiteEnts : ReconcilerCommit(e)
    \/ \E e \in SiteEnts : ReconcilerError(e)
    \/ RequestSelect
    \/ \E ok \in BOOLEAN : RequestApply(ok)
    \/ RequestCommit
    \/ RequestError
    \/ \E id \in RequestIds : ClusterCreatesSecret(id)
    \/ \E id \in RequestIds : ClusterSetsStatus(id)
    \/ \E id \in RequestIds : SecretAddedSelect(id)
    \/ \E id \in RequestIds : \E ok \in BOOLEAN : SecretAddedCommit(id, ok)
    \/ \E id \in RequestIds : SecretAddedError(id)
    \/ \E id \in RequestIds : OnCertificateWatch(id)
    \/ ActivateBackbone
    \/ CreateBackboneSite

\* ------------------------------------------------------------------------
\* Properties of the certificate pipeline
\* ------------------------------------------------------------------------
ReadyEnts == { e \in Ents : entity[e].lifecycle = "ready" }

\* C4 (as stated): every row whose Lifecycle is 'ready' references a
\* TlsCertificates row that exists and has a non-null expiration.
C4_ReadyHasExpiration ==
    \A e \in ReadyEnts :
        \E c \in tlsCertificates : c.id = entity[e].certificate /\ c.expiration # Null

\* C4 (amended): every row whose Lifecycle is 'ready' references a
\* TlsCertificates row that exists; the expiration of that row is null only
\* when the cluster certificate had no notAfter at the time secretAdded
\* loaded it and no certificate MODIFIED event has updated the row since.
C4_ReadyHasCertificate ==
    \A e \in ReadyEnts :
        /\ entity[e].certificate # 0
        /\ \E c \in tlsCertificates :
               /\ c.id = entity[e].certificate
               /\ c.expiration \in {Null, Date}
               /\ c.expiration = Null => c.loaded = "pending"
               /\ c.loaded = "issued" => c.expiration = Date

\* a row became ready while the certificate had no notAfter yet: its
\* TlsCertificates row exists with a null expiration
C4_Witness ==
    \E e \in ReadyEnts :
        \E c \in tlsCertificates :
            c.id = entity[e].certificate /\ c.expiration = Null /\ c.loaded = "pending"

\* C5: every certificate request in cm_cert_created has exactly one cluster
\* certificate object annotated with its id.
C5_ExactlyOneClusterCert ==
    \A r \in requests :
        r.lifecycle = "cm_cert_created" => clusterCerts[r.id] # "none"

\* C6: at every committed state an entity in skx_cr_created has exactly one
\* CertificateRequests row referencing it and an entity in new has none.
C6_RequestsMatchLifecycle ==
    \A e \in Ents :
        /\ entity[e].lifecycle = "skx_cr_created" => Cardinality(RequestsFor(e)) = 1
        /\ entity[e].lifecycle = "new" => RequestsFor(e) = {}

\* C23: at every committed state an access point that is partial lacks a
\* host or a port, and a step that takes it from partial to new leaves it
\* with both a host and a port.
C23_PartialUntilHostAndPort ==
    /\ [](entity["ap"].lifecycle = "partial" =>
             (entity["ap"].hostname = Null \/ entity["ap"].port = Null))
    /\ [][(entity["ap"].lifecycle = "partial" /\ entity'["ap"].lifecycle = "new") =>
             (entity'["ap"].hostname # Null /\ entity'["ap"].port # Null)]_vars

IsPrefix(a, b) == Len(a) <= Len(b) /\ a = SubSeq(b, 1, Len(a))

\* C17 (as amended): the interior site takes the lifecycle values new,
\* skx_cr_created and ready in exactly that order, never skipping one and
\* never moving backward; cm_cert_created is taken by the site's
\* CertificateRequests row, and only while the site is skx_cr_created.
C17_SiteLifecycleOrder ==
    /\ IsPrefix(trajectory, <<"new", "skx_cr_created", "ready">>)
    /\ \A r \in RequestsFor("site") :
           /\ r.lifecycle \in {"new", "cm_cert_created"}
           /\ entity["site"].lifecycle = "skx_cr_created"

\* the site is ready, having taken the three values in order
C17_Witness ==
    /\ entity["site"].lifecycle = "ready"
    /\ trajectory = <<"new", "skx_cr_created", "ready">>
    /\ entity["bb"].lifecycle = "ready"

\* C17 (as stated): the interior site takes the lifecycle values new,
\* skx_cr_created, cm_cert_created and ready in exactly that order, never
\* skipping one.
C17_SiteVisitsCertCreated ==
    /\ IsPrefix(trajectory, <<"new", "skx_cr_created", "cm_cert_created", "ready">>)
    /\ entity["site"].lifecycle = "ready" => Len(trajectory) = 4

\* ------------------------------------------------------------------------
\* Deployment state of interior sites (site-deployment-state.js and the
\* handlers of api-admin.js, certs.js and sync-management.js that call it)
\* ------------------------------------------------------------------------
Sites == {"A", "B"}
MaxHeartbeats == 3
AccessPoints == {"mA", "pA", "mB", "pB"}
InteriorSite(ap) == IF ap \in {"mA", "pA"} THEN "A" ELSE "B"
Kind(ap) == IF ap \in {"mA", "mB"} THEN "manage" ELSE "peer"

Present(aps, ap) == aps[ap] = "present"

\* site-deployment-state.js:38-42: links from site s to access points of
\* sites whose stored state is deployed
DeployedPeerLinks(s, st, lnk) ==
    { l \in lnk : l.connecting = s /\ st[InteriorSite(l.ap)].deploymentState = "deployed" }

\* line 49: manage access points of site s
ManageAccessPoints(s, aps) ==
    { ap \in AccessPoints : Present(aps, ap) /\ Kind(ap) = "manage" /\ InteriorSite(ap) = s }

\* the manage access points looked up before the links
EvaluateSingleSiteBootstrapFirst(lifecycle, deployedPeerLinks, manageAccessPoints) ==
    IF lifecycle = "active" THEN "deployed"
    ELSE IF lifecycle = "ready"
         THEN IF manageAccessPoints # {} THEN "ready-bootstrap"
              ELSE IF deployedPeerLinks # {} THEN "ready-automatic"
              ELSE "not-ready"
         ELSE "not-ready"

\* lines 29-53: the state the rules yield for a site
EvaluateSingleSite(lifecycle, deployedPeerLinks, manageAccessPoints) ==
    IF lifecycle = "active" THEN "deployed"
    ELSE IF lifecycle = "ready"
         THEN IF deployedPeerLinks # {} THEN "ready-automatic"
              ELSE IF manageAccessPoints # {} THEN "ready-bootstrap"
              ELSE "not-ready"
         ELSE "not-ready"

\* lines 29-58 evaluateSingleSite_TX: store the state of site s
Evaluate(s, st, aps, lnk) ==
    [st EXCEPT ![s].deploymentState =
        EvaluateSingleSite(st[s].lifecycle, DeployedPeerLinks(s, st, lnk),
                           ManageAccessPoints(s, aps))]

\* lines 66-77: the sites that connect to access points of site s, in turn
RECURSIVE EvaluateAll(_, _, _, _)
EvaluateAll(ss, st, aps, lnk) ==
    IF ss = {} THEN st
    ELSE LET s == CHOOSE x \in ss : TRUE
         IN  EvaluateAll(ss \ {s}, Evaluate(s, st, aps, lnk), aps, lnk)

Connected(s, lnk) == { l.connecting : l \in { k \in lnk : InteriorSite(k.ap) = s } }

\* the cascade of lines 66-77 left out
SiteLifecycleChangedAlone(s, newState, st, aps, lnk) == Evaluate(s, st, aps, lnk)

\* lines 60-80 SiteLifecycleChanged_TX
SiteLifecycleChanged(s, newState, st, aps, lnk) ==
    IF newState = "active"
    THEN EvaluateAll(Connected(s, lnk), Evaluate(s, st, aps, lnk), aps, lnk)
    ELSE Evaluate(s, st, aps, lnk)

\* lines 60-80: the rows SiteLifecycleChanged_TX evaluates
Evaluated(s, newState, lnk) ==
    IF newState = "active" THEN {s} \cup Connected(s, lnk) ELSE {s}

\* sync-management.js onNewBackboneSite, lines 103-108: the row joined
\* with TlsCertificates; the Certificate column is set together with
\* Lifecycle = 'ready'
HasCertificate(site) == site.lifecycle # "new"

\* CURRENT_TIMESTAMP of an UPDATE of the row: later than the LastHeartbeat
\* the row holds; 0 is NULL
Timestamp(site) == site.lastHeartbeat + 1

\* ---- certs.js:2742-2751 secretAdded for an interior site: Lifecycle =
\* 'ready' and SiteLifecycleChanged_TX in one transaction
SiteCertificateReady(s) ==
    /\ sites[s].lifecycle = "new"
    /\ sites' = SiteLifecycleChanged(s, "ready", [sites EXCEPT ![s].lifecycle = "ready"],
                                     accessPoints, links)
    /\ evaluated' = Evaluated(s, "ready", links)
    /\ UNCHANGED <<accessPoints, links, notifications, backbonePeers>>
    /\ UNCHANGED <<syncVars, claimVars, certVars, linkVars, amqpVars>>

\* ---- sync-management.js onNewBackboneSite, lines 80-173, called by
\* onNewPeer (496-510) for the first heartbeat of a peer the sync module
\* does not know. A ready site gets FirstActiveTime, LastHeartbeat and
\* Lifecycle = 'active' and SiteLifecycleChanged_TX in one transaction; any
\* other site that has a certificate gets LastHeartbeat. ok = FALSE: a
\* statement of the transaction raises. When the row has no certificate or
\* a statement raises, the transaction is rolled back; the handler returns
\* either way and the peer is registered.
OnNewBackboneSite(s, ok) ==
    /\ s \notin backbonePeers
    /\ sites[s].lastHeartbeat < MaxHeartbeats
    /\ backbonePeers' = backbonePeers \cup {s}
    /\ IF ok /\ HasCertificate(sites[s])
       THEN IF sites[s].lifecycle = "ready"
            THEN /\ sites' = SiteLifecycleChanged(s, "active",
                                 [sites EXCEPT ![s].lifecycle = "active",
                                               ![s].firstActiveTime = Timestamp(sites[s]),
                                               ![s].lastHeartbeat = Timestamp(sites[s])],
                                 accessPoints, links)
                 /\ evaluated' = Evaluated(s, "active", links)
            ELSE /\ sites' = [sites EXCEPT ![s].lastHeartbeat = Timestamp(sites[s])]
                 /\ evaluated' = {}
       ELSE /\ UNCHANGED sites
            /\ evaluated' = {}
    /\ UNCHANGED <<accessPoints, links, notifications>>
    /\ UNCHANGED <<syncVars, claimVars, certVars, linkVars, amqpVars>>

\* the first heartbeat of a site that is ready, its transaction committing
FirstConnection(s) ==
    /\ sites[s].lifecycle = "ready"
    /\ OnNewBackboneSite(s, TRUE)

\* ---- sync-management.js onPing, lines 550-568: a later heartbeat of a
\* known peer; LastHeartbeat only. ok = FALSE: the UPDATE or the COMMIT
\* raises and the transaction is rolled back.
OnPing(s, ok) ==
    /\ s \in backbonePeers
    /\ sites[s].lastHeartbeat < MaxHeartbeats
    /\ sites' = IF ok THEN [sites EXCEPT ![s].lastHeartbeat = Timestamp(sites[s])] ELSE sites
    /\ evaluated' = {}
    /\ UNCHANGED <<accessPoints, links, notifications, backbonePeers>>
    /\ UNCHANGED <<syncVars, claimVars, certVars, linkVars, amqpVars>>

\* ---- sync-management.js onPeerLost, lines 512-523: the peer's
\* heartbeats stopped; onLostBackbone does nothing and the peer is
\* forgotten
OnPeerLost(s) ==
    /\ s \in backbonePeers
    /\ backbonePeers' = backbonePeers \ {s}
    /\ evaluated' = {}
    /\ UNCHANGED <<sites, accessPoints, links, notifications>>
    /\ UNCHANGED <<syncVars, claimVars, certVars, linkVars, amqpVars>>

\* ---- api-admin.js:187-260 createAccessPoint: INSERT, COMMIT, then
\* ManageIngressAdded for a manage access point
CreateAccessPoint(ap) ==
    /\ accessPoints[ap] = "absent"
    /\ accessPoints' = [accessPoints EXCEPT ![ap] = "present"]
    /\ notifications' = IF Kind(ap) = "manage"
                        THEN notifications \cup
                             {[call |-> "ManageIngressAdded", site |-> InteriorSite(ap), ap |-> ap]}
                        ELSE notifications
    /\ evaluated' = {}
    /\ UNCHANGED <<sites, links, backbonePeers>>
    /\ UNCHANGED <<syncVars, claimVars, certVars, linkVars, amqpVars>>

\* ---- api-admin.js:524-568 deleteAccessPoint: DELETE (the links to the
\* access point go by cascade), COMMIT, then ManageIngressDeleted for a
\* manage access point
DeleteAccessPointOfSite(ap) ==
    /\ Present(accessPoints, ap)
    /\ accessPoints' = [accessPoints EXCEPT ![ap] = "deleted"]
    /\ links' = { l \in links : l.ap # ap }
    /\ notifications' = IF Kind(ap) = "manage"
                        THEN notifications \cup
                             {[call |-> "ManageIngressDeleted", site |-> InteriorSite(ap), ap |-> ap]}
                        ELSE notifications
    /\ evaluated' = {}
    /\ UNCHANGED <<sites, backbonePeers>>
    /\ UNCHANGED <<syncVars, claimVars, certVars, linkVars, amqpVars>>

\* ---- api-admin.js:262-348 createBackboneLink: the access point must be
\* of kind peer; INSERT, COMMIT, then LinkAddedOrDeleted
CreateBackboneLink(ap, s) ==
    /\ Present(accessPoints, ap)
    /\ Kind(ap) = "peer"
    /\ [ap |-> ap, connecting |-> s] \notin links
    /\ links' = links \cup {[ap |-> ap, connecting |-> s]}
    /\ notifications' = notifications \cup
                        {[call |-> "LinkAddedOrDeleted", site |-> s, ap |-> ap]}
    /\ evaluated' = {}
    /\ UNCHANGED <<sites, accessPoints, backbonePeers>>
    /\ UNCHANGED <<syncVars, claimVars, certVars, linkVars, amqpVars>>

\* ---- api-admin.js:570-611 deleteBackboneLink: DELETE, COMMIT, then
\* LinkAddedOrDeleted
DeleteBackboneLink(l) ==
    /\ l \in links
    /\ links' = links \ {l}
    /\ notifications' = notifications \cup
                        {[call |-> "LinkAddedOrDeleted", site |-> l.connecting, ap |-> l.ap]}
    /\ evaluated' = {}
    /\ UNCHANGED <<sites, accessPoints, backbonePeers>>
    /\ UNCHANGED <<syncVars, claimVars, certVars, linkVars, amqpVars>>

\* ---- site-deployment-state.js:82-106: re-evaluate the connecting site
\* when the site of the access point is deployed
LinkAddedOrDeleted(n) ==
    /\ n \in notifications
    /\ n.call = "LinkAddedOrDeleted"
    /\ notifications' = notifications \ {n}
    /\ sites' = IF Present(accessPoints, n.ap)
                   /\ sites[InteriorSite(n.ap)].deploymentState = "deployed"
                THEN Evaluate(n.site, sites, accessPoints, links)
                ELSE sites
    /\ evaluated' = IF Present(accessPoints, n.ap)
                       /\ sites[InteriorSite(n.ap)].deploymentState = "deployed"
                    THEN {n.site}
                    ELSE {}
    /\ UNCHANGED <<accessPoints, links, backbonePeers>>
    /\ UNCHANGED <<syncVars, claimVars, certVars, linkVars, amqpVars>>

\* ---- lines 108-127: re-evaluate a site that is not-ready
ManageIngressAdded(n) ==
    /\ n \in notifications
    /\ n.call = "ManageIngressAdded"
    /\ notifications' = notifications \ {n}
    /\ sites' = IF sites[n.site].deploymentState = "not-ready"
                THEN Evaluate(n.site, sites, accessPoints, links)
                ELSE sites
    /\ evaluated' = IF sites[n.site].deploymentState = "not-ready"
                    THEN {n.site}
                    ELSE {}
    /\ UNCHANGED <<accessPoints, links, backbonePeers>>
    /\ UNCHANGED <<syncVars, claimVars, certVars, linkVars, amqpVars>>

\* ---- lines 129-148: re-evaluate a site that is ready-bootstrap
ManageIngressDeleted(n) ==
    /\ n \in notifications
    /\ n.call = "ManageIngressDeleted"
    /\ notifications' = notifications \ {n}
    /\ sites' = IF sites[n.site].deploymentState = "ready-bootstrap"
                THEN Evaluate(n.site, sites, accessPoints, links)
                ELSE sites
    /\ evaluated' = IF sites[n.site].deploymentState = "ready-bootstrap"
                    THEN {n.site}
                    ELSE {}
    /\ UNCHANGED <<accessPoints, links, backbonePeers>>
    /\ UNCHANGED <<syncVars, claimVars, certVars, linkVars, amqpVars>>

Notifications ==
    [call : {"LinkAddedOrDeleted", "ManageIngressAdded", "ManageIngressDeleted"},
     site : Sites, ap : AccessPoints]

InitDeploy ==
    /\ sites = [s \in Sites |-> [lifecycle |-> "new", deploymentState |-> "not-ready",
                                  firstActiveTime |-> 0, lastHeartbeat |-> 0]]
    /\ backbonePeers = {}
    /\ evaluated = {}
    /\ accessPoints = [ap \in AccessPoints |-> "absent"]
    /\ links = {}
    /\ notifications = {}

NextDeploy ==
    \/ \E s \in Sites : SiteCertificateReady(s)
    \/ \E s \in Sites : FirstConnection(s)
    \/ \E ap \in AccessPoints : CreateAccessPoint(ap)
    \/ \E ap \in AccessPoints : DeleteAccessPointOfSite(ap)
    \/ \E ap \in AccessPoints : \E s \in Sites : CreateBackboneLink(ap, s)
    \/ \E l \in links : DeleteBackboneLink(l)
    \/ \E n \in Notifications : LinkAddedOrDeleted(n)
    \/ \E n \in Notifications : ManageIngressAdded(n)
    \/ \E n \in Notifications : ManageIngressDeleted(n)

\* the events that evaluate sites while the backbone is built up: sites
\* get their certificates and connect, access points and links are added,
\* manage access points are withdrawn
ManageKind == { ap \in AccessPoints : Kind(ap) = "manage" }

NextEvaluate ==
    \/ \E s \in Sites : SiteCertificateReady(s)
    \/ \E s \in Sites : FirstConnection(s)
    \/ \E ap \in AccessPoints : CreateAccessPoint(ap)
    \/ \E ap \in ManageKind : DeleteAccessPointOfSite(ap)
    \/ \E ap \in AccessPoints : \E s \in Sites : CreateBackboneLink(ap, s)
    \/ \E n \in Notifications : LinkAddedOrDeleted(n)
    \/ \E n \in Notifications : ManageIngressAdded(n)
    \/ \E n \in Notifications : ManageIngressDeleted(n)

\* the heartbeats of the interior sites
NextHeartbeat ==
    \/ \E s \in Sites : SiteCertificateReady(s)
    \/ \E s \in Sites : \E ok \in BOOLEAN : OnNewBackboneSite(s, ok)
    \/ \E s \in Sites : \E ok \in BOOLEAN : OnPing(s, ok)
    \/ \E s \in Sites : OnPeerLost(s)

\* ------------------------------------------------------------------------
\* Properties of the deployment state
\* ------------------------------------------------------------------------
\* C7: once every event has been handled (no deployment-state call is
\* outstanding), the stored DeploymentState of every interior site equals
\* what the evaluation rules yield for it.
C7_DeploymentStateConsistent ==
    notifications = {} =>
        \A s \in Sites : Evaluate(s, sites, accessPoints, links) = sites

\* a heartbeat of site s is received and handled
HeartbeatReceived(s) == \E ok \in BOOLEAN : OnNewBackboneSite(s, ok) \/ OnPing(s, ok)

\* C18: a heartbeat received from a site that is ready makes it active with
\* FirstActiveTime set; a heartbeat received from a site in any other
\* lifecycle changes nothing of the site but LastHeartbeat.
C18_HeartbeatWhileReadyActivates ==
    [][\A s \in Sites :
          HeartbeatReceived(s) =>
              IF sites[s].lifecycle = "ready"
              THEN /\ sites'[s].lifecycle = "active"
                   /\ sites'[s].firstActiveTime # 0
              ELSE sites' = [sites EXCEPT ![s].lastHeartbeat = sites'[s].lastHeartbeat]]_vars

HasDeployedPeer(s) ==
    \E l \in links : l.connecting = s /\ sites[InteriorSite(l.ap)].deploymentState = "deployed"

HasManageAccessPoint(s) ==
    \E ap \in AccessPoints :
        accessPoints[ap] = "present" /\ Kind(ap) = "manage" /\ InteriorSite(ap) = s

\* C19: a site that the last transaction evaluated has the DeploymentState
\* of the first rule that matches: deployed if it is active; ready-automatic
\* if it is ready and a link from it targets an access point of a deployed
\* site; ready-bootstrap if it is ready and has a manage access point;
\* not-ready otherwise.
C19_FirstMatchingRule ==
    \A s \in evaluated :
        sites[s].deploymentState =
            IF sites[s].lifecycle = "active" THEN "deployed"
            ELSE IF sites[s].lifecycle = "ready" /\ HasDeployedPeer(s) THEN "ready-automatic"
            ELSE IF sites[s].lifecycle = "ready" /\ HasManageAccessPoint(s) THEN "ready-bootstrap"
            ELSE "not-ready"

\* a site matching the second and the third rule was evaluated
C19_Witness ==
    \E s \in evaluated :
        /\ sites[s].lifecycle = "ready"
        /\ HasDeployedPeer(s)
        /\ HasManageAccessPoint(s)
        /\ sites[s].deploymentState = "ready-automatic"

\* C20: the transaction that makes a site active evaluates every site with
\* a link into an access point of that site, and leaves each of them that
\* is ready with DeploymentState ready-automatic.
C20_CascadeOnActive ==
    [][\A s \in Sites :
          (sites[s].lifecycle # "active" /\ sites'[s].lifecycle = "active") =>
              \A t \in Connected(s, links) :
                  /\ t \in evaluated'
                  /\ sites'[t].lifecycle = "ready" =>
                         sites'[t].deploymentState = "ready-automatic"]_vars

\* a ready site was evaluated together with the site it connects to, which
\* is now active, and was not ready-automatic otherwise
C20_Witness ==
    \E s, t \in Sites :
        /\ s # t
        /\ t \in Connected(s, links)
        /\ evaluated = {s, t}
        /\ sites[s].lifecycle = "active"
        /\ sites[s].firstActiveTime # 0
        /\ sites[t].lifecycle = "ready"
        /\ sites[t].deploymentState = "ready-automatic"
        /\ \A l \in links : l.connecting = t => InteriorSite(l.ap) = s

\* ------------------------------------------------------------------------
\* Backbone-link manager (backbone-links.js)
\* ------------------------------------------------------------------------
Backbones == {"b1", "b2"}
ManageAps == {"a1", "a2", "a3"}     \* manage access points: a1, a2 on b1, a3 on b2
BackboneOf(ap) == IF ap = "a3" THEN "b2" ELSE "b1"

\* lines 487-492: the rows of the query, ready manage access points
ReadyManageAps(aps, bb) == { ap \in ManageAps : BackboneOf(ap) = bb /\ aps[ap] = "ready" }

\* lines 493-498: db_rows keeps the first row of each backbone; the query
\* has no ORDER BY, so any of its rows can come first
DbRows(aps) ==
    { rows \in [Backbones -> ManageAps \cup {None}] :
        \A bb \in Backbones :
            IF ReadyManageAps(aps, bb) = {} THEN rows[bb] = None
            ELSE rows[bb] \in ReadyManageAps(aps, bb) }

\* lines 504-516: an entry that exists is kept as it is when its backbone
\* has a row, a missing one is opened to the row's host and port, an entry
\* without a row is closed
Reconciled(conns, rows) ==
    [bb \in Backbones |->
        IF rows[bb] = None THEN None
        ELSE IF conns[bb] # None THEN conns[bb]
        ELSE rows[bb]]

\* lines 540-562 resolveTLSData: the controller's credential is loaded and
\* the reconcile loop starts
ResolveTLSData ==
    /\ ~tlsResolved
    /\ tlsResolved' = TRUE
    /\ UNCHANGED <<backboneReady, manageAps, bbConnections, handlerLinks, cycleDone>>
    /\ UNCHANGED handlerVars
    /\ UNCHANGED <<syncVars, claimVars, certVars, deployVars, amqpVars>>

\* certs.js secretAdded for a backbone: Lifecycle = 'ready'
BackboneBecomesReady(bb) ==
    /\ ~backboneReady[bb]
    /\ backboneReady' = [backboneReady EXCEPT ![bb] = TRUE]
    /\ cycleDone' = FALSE
    /\ UNCHANGED <<tlsResolved, manageAps, bbConnections, handlerLinks>>
    /\ UNCHANGED handlerVars
    /\ UNCHANGED <<syncVars, claimVars, certVars, deployVars, amqpVars>>

\* certs.js secretAdded for an access point (requested only once its
\* backbone is ready): Lifecycle = 'ready'
AccessPointBecomesReady(ap) ==
    /\ manageAps[ap] = "partial"
    /\ backboneReady[BackboneOf(ap)]
    /\ manageAps' = [manageAps EXCEPT ![ap] = "ready"]
    /\ cycleDone' = FALSE
    /\ UNCHANGED <<tlsResolved, backboneReady, bbConnections, handlerLinks>>
    /\ UNCHANGED handlerVars
    /\ UNCHANGED <<syncVars, claimVars, certVars, deployVars, amqpVars>>

\* api-admin.js deleteAccessPoint of a manage access point
DeleteManageAccessPoint(ap) ==
    /\ manageAps[ap] # "deleted"
    /\ manageAps' = [manageAps EXCEPT ![ap] = "deleted"]
    /\ cycleDone' = FALSE
    /\ UNCHANGED <<tlsResolved, backboneReady, bbConnections, handlerLinks>>
    /\ UNCHANGED handlerVars
    /\ UNCHANGED <<syncVars, claimVars, certVars, deployVars, amqpVars>>

\* lines 482-527 reconcileBackboneConnections with createConnection
\* (450-470) and deleteConnection (472-480): one cycle
ReconcileBackboneConnections(rows) ==
    /\ tlsResolved
    /\ rows \in DbRows(manageAps)
    /\ bbConnections' = Reconciled(bbConnections, rows)
    /\ handlerLinks' = { bb \in Backbones : bbConnections'[bb] # None }
    /\ cycleDone' = TRUE
    /\ UNCHANGED <<tlsResolved, backboneReady, manageAps>>
    /\ UNCHANGED handlerVars
    /\ UNCHANGED <<syncVars, claimVars, certVars, deployVars, amqpVars>>

\* ---- the reconcile cycle and RegisterHandler step by step: every await
\* of a subscriber's callback is a point where the other one can run
Subscribers == {"r1", "r2"}

\* the orders in which the elements of a set can be enumerated
Orders(S) ==
    { q \in [1..Cardinality(S) -> S] : \A i, j \in 1..Cardinality(S) : i # j => q[i] # q[j] }

IdleCycle == [pc |-> "idle", bb |-> None, i |-> 0, rows |-> [bb \in Backbones |-> None],
              creates |-> <<>>, deletes |-> <<>>, session |-> None]

NotRegistering == [pc |-> "none", todo |-> <<>>]

\* one call of reg.onLinkAdded (createConnection line 468) or
\* reg.onLinkDeleted (deleteConnection line 478) for the session
Called(c, r, session, pc) ==
    [c EXCEPT ![r][session].added = IF pc = "adding" THEN @ + 1 ELSE @,
              ![r][session].deleted = IF pc = "deleting" THEN @ + 1 ELSE @]

\* lines 482-527 with createConnection and deleteConnection, from the
\* point the cycle is at up to its next await: the loops over
\* registrations read the array as it is when they get there
RECURSIVE RunCycle(_, _)
RunCycle(regs, st) ==
    IF st.cycle.pc \in {"adding", "deleting"} /\ st.cycle.i < Len(regs)
    THEN [st EXCEPT !.cycle.i = @ + 1,
                    !.calls = Called(@, regs[st.cycle.i + 1], st.cycle.session, st.cycle.pc)]
    ELSE IF st.cycle.creates # <<>>
    THEN LET bb == Head(st.cycle.creates)
         IN  RunCycle(regs, [st EXCEPT !.conns[bb] = st.cycle.rows[bb],
                                       !.opened = @ \cup {st.cycle.rows[bb]},
                                       !.cycle.session = st.cycle.rows[bb],
                                       !.cycle.pc = "adding",
                                       !.cycle.bb = bb,
                                       !.cycle.i = 0,
                                       !.cycle.creates = Tail(@)])
    ELSE IF st.cycle.deletes # <<>>
    THEN LET bb == Head(st.cycle.deletes)
         IN  RunCycle(regs, [st EXCEPT !.conns[bb] = None,
                                       !.cycle.session = st.conns[bb],
                                       !.cycle.pc = "deleting",
                                       !.cycle.bb = bb,
                                       !.cycle.i = 0,
                                       !.cycle.deletes = Tail(@)])
    ELSE [st EXCEPT !.cycle.pc = "commit"]

\* lines 482-516: the query and what follows it up to the first await;
\* entries without a row are marked, missing ones are created in the
\* order of the rows, marked ones deleted in the order of the keys
ReconcileSelect(rows, creates, deletes) ==
    /\ tlsResolved
    /\ cycle.pc = "idle"
    /\ rows \in DbRows(manageAps)
    /\ creates \in Orders({ bb \in Backbones : rows[bb] # None /\ bbConnections[bb] = None })
    /\ deletes \in Orders({ bb \in Backbones : rows[bb] = None /\ bbConnections[bb] # None })
    /\ LET st == RunCycle(registrations,
                          [conns |-> bbConnections, calls |-> calls, opened |-> opened,
                           cycle |-> [IdleCycle EXCEPT !.pc = "selected", !.rows = rows,
                                                       !.creates = creates,
                                                       !.deletes = deletes]])
       IN  /\ bbConnections' = st.conns
           /\ calls' = st.calls
           /\ opened' = st.opened
           /\ cycle' = st.cycle
    /\ UNCHANGED <<registrations, registering, closedBefore>>
    /\ UNCHANGED <<tlsResolved, backboneReady, manageAps, handlerLinks, cycleDone>>
    /\ UNCHANGED <<syncVars, claimVars, certVars, deployVars, amqpVars>>

\* the awaited callback returns and the cycle goes on to its next await
ReconcileResume ==
    /\ cycle.pc \in {"adding", "deleting"}
    /\ LET st == RunCycle(registrations,
                          [conns |-> bbConnections, calls |-> calls, opened |-> opened,
                           cycle |-> cycle])
       IN  /\ bbConnections' = st.conns
           /\ calls' = st.calls
           /\ opened' = st.opened
           /\ cycle' = st.cycle
    /\ UNCHANGED <<registrations, registering, closedBefore>>
    /\ UNCHANGED <<tlsResolved, backboneReady, manageAps, handlerLinks, cycleDone>>
    /\ UNCHANGED <<syncVars, claimVars, certVars, deployVars, amqpVars>>

\* line 518 COMMIT and 525: the cycle ends; it saw the database as it is
\* now when its rows are still rows of the query
ReconcileCommit ==
    /\ cycle.pc = "commit"
    /\ cycleDone' = (cycle.rows \in DbRows(manageAps))
    /\ cycle' = IdleCycle
    /\ UNCHANGED <<registrations, registering, calls, opened, closedBefore>>
    /\ UNCHANGED <<tlsResolved, backboneReady, manageAps, bbConnections, handlerLinks>>
    /\ UNCHANGED <<syncVars, claimVars, certVars, deployVars, amqpVars>>

\* the sessions that are open
OpenSessions(conns) == { conns[bb] : bb \in { b \in Backbones : conns[b] # None } }

\* lines 602-611 RegisterHandler from the call of subscriber r up to its
\* first await: Object.entries takes the open sessions as they are now,
\* onAdded is called for the first of them; with no session open the pair
\* is pushed at once
RegisterHandler(r, entries) ==
    /\ registering[r].pc = "none"
    /\ entries \in Orders(OpenSessions(bbConnections))
    /\ closedBefore' = [closedBefore EXCEPT ![r] = opened \ OpenSessions(bbConnections)]
    /\ IF entries = <<>>
       THEN /\ registrations' = Append(registrations, r)
            /\ registering' = [registering EXCEPT ![r] = [pc |-> "done", todo |-> <<>>]]
            /\ UNCHANGED calls
       ELSE /\ calls' = Called(calls, r, Head(entries), "adding")
            /\ registering' = [registering EXCEPT ![r] = [pc |-> "entries", todo |-> Tail(entries)]]
            /\ UNCHANGED registrations
    /\ UNCHANGED <<cycle, opened>>
    /\ UNCHANGED <<tlsResolved, backboneReady, manageAps, bbConnections, handlerLinks, cycleDone>>
    /\ UNCHANGED <<syncVars, claimVars, certVars, deployVars, amqpVars>>

\* the awaited onAdded returns: the next entry, or the push of line 607
RegisterResume(r) ==
    /\ registering[r].pc = "entries"
    /\ IF registering[r].todo = <<>>
       THEN /\ registrations' = Append(registrations, r)
            /\ registering' = [registering EXCEPT ![r] = [pc |-> "done", todo |-> <<>>]]
            /\ UNCHANGED calls
       ELSE /\ calls' = Called(calls, r, Head(registering[r].todo), "adding")
            /\ registering' = [registering EXCEPT ![r].todo = Tail(@)]
            /\ UNCHANGED registrations
    /\ UNCHANGED <<cycle, opened, closedBefore>>
    /\ UNCHANGED <<tlsResolved, backboneReady, manageAps, bbConnections, handlerLinks, cycleDone>>
    /\ UNCHANGED <<syncVars, claimVars, certVars, deployVars, amqpVars>>

\* createConnection line 468: the awaited reg.onLinkAdded rejects; the
\* catch block of the cycle (lines 519-522) rolls back and the cycle ends
\* with the entry of line 451 in the map
ReconcileRaises ==
    /\ cycle.pc = "adding"
    /\ cycle' = IdleCycle
    /\ UNCHANGED <<registrations, registering, calls, opened, closedBefore>>
    /\ UNCHANGED <<tlsResolved, backboneReady, manageAps, bbConnections, handlerLinks, cycleDone>>
    /\ UNCHANGED <<syncVars, claimVars, certVars, deployVars, amqpVars>>

InitLinks ==
    /\ tlsResolved = FALSE
    /\ backboneReady = [bb \in Backbones |-> FALSE]
    /\ manageAps = [ap \in ManageAps |-> "partial"]
    /\ bbConnections = [bb \in Backbones |-> None]
    /\ handlerLinks = {}
    /\ cycleDone = FALSE
    /\ registrations = <<>>
    /\ registering = [r \in Subscribers |-> NotRegistering]
    /\ calls = [r \in Subscribers |-> [ap \in ManageAps |-> [added |-> 0, deleted |-> 0]]]
    /\ cycle = IdleCycle
    /\ opened = {}
    /\ closedBefore = [r \in Subscribers |-> {}]

NextLinks ==
    \/ ResolveTLSData
    \/ \E bb \in Backbones : BackboneBecomesReady(bb)
    \/ \E ap \in ManageAps : AccessPointBecomesReady(ap)
    \/ \E ap \in ManageAps : DeleteManageAccessPoint(ap)
    \/ \E rows \in [Backbones -> ManageAps \cup {None}] : ReconcileBackboneConnections(rows)

\* the reconcile cycle with subscribers registering while it runs
NextHandlers ==
    \/ ResolveTLSData
    \/ \E bb \in Backbones : BackboneBecomesReady(bb)
    \/ \E ap \in ManageAps : AccessPointBecomesReady(ap)
    \/ \E ap \in ManageAps : DeleteManageAccessPoint(ap)
    \/ \E rows \in [Backbones -> ManageAps \cup {None}] :
          \E creates, deletes \in Orders({}) \cup UNION { Orders(S) : S \in (SUBSET Backbones) \ {{}} } :
              ReconcileSelect(rows, creates, deletes)
    \/ ReconcileResume
    \/ ReconcileCommit
    \/ \E r \in Subscribers :
          \E entries \in Orders({}) \cup UNION { Orders(S) : S \in (SUBSET ManageAps) \ {{}} } :
              RegisterHandler(r, entries)
    \/ \E r \in Subscribers : RegisterResume(r)

\* the subscribers register at start, before a session is open, and a
\* subscriber's onLinkAdded may fail
NextFailure ==
    \/ ResolveTLSData
    \/ \E bb \in Backbones : BackboneBecomesReady(bb)
    \/ \E ap \in ManageAps : AccessPointBecomesReady(ap)
    \/ \E ap \in ManageAps : DeleteManageAccessPoint(ap)
    \/ \E rows \in [Backbones -> ManageAps \cup {None}] :
          \E creates, deletes \in Orders({}) \cup UNION { Orders(S) : S \in (SUBSET Backbones) \ {{}} } :
              ReconcileSelect(rows, creates, deletes)
    \/ ReconcileResume
    \/ ReconcileCommit
    \/ ReconcileRaises
    \/ \E r \in Subscribers : cycle.pc = "idle" /\ RegisterHandler(r, <<>>)

\* ------------------------------------------------------------------------
\* Properties of the backbone-link manager
\* ------------------------------------------------------------------------
\* C8: right after a reconcile cycle the session map holds a session for
\* exactly the ready backbones that have a ready manage access point, and
\* every session was opened to a manage access point that still exists.
C8_SessionsMatchAccessPoints ==
    cycleDone =>
        \A bb \in Backbones :
            /\ bbConnections[bb] # None <=>
                   (backboneReady[bb] /\ ReadyManageAps(manageAps, bb) # {})
            /\ bbConnections[bb] # None => manageAps[bbConnections[bb]] = "ready"

\* no reconcile cycle and no RegisterHandler call is under way
Quiescent == cycle.pc = "idle" /\ \A r \in Subscribers : registering[r].pc # "entries"

Registered(r) == registering[r].pc = "done"

\* C21: once the reconcile cycle that follows the deletion of a manage
\* access point has ended, the session that was opened to that access point
\* is closed and every registered subscriber that was told of the session
\* has received onLinkDeleted for it exactly once.
C21_DeletedSessionClosedOnce ==
    (cycleDone /\ Quiescent) =>
        \A ap \in opened :
            manageAps[ap] = "deleted" =>
                /\ ap \notin OpenSessions(bbConnections)
                /\ \A r \in Subscribers :
                       (Registered(r) /\ calls[r][ap].added > 0) => calls[r][ap].deleted = 1

\* C22: a registered subscriber has received onLinkAdded exactly once for
\* every session that was open when it registered or was opened afterwards,
\* and for no other session.
C22_AddedExactlyOnce ==
    Quiescent =>
        \A r \in Subscribers :
            Registered(r) =>
                \A ap \in ManageAps :
                    calls[r][ap].added = IF ap \in opened \ closedBefore[r] THEN 1 ELSE 0

\* C35: between reconcile cycles, every entry of the session map holds a
\* session that was opened and every registered subscriber has received
\* onLinkAdded for it.
C35_EntryMeansEveryoneNotified ==
    cycle.pc = "idle" =>
        \A bb \in Backbones :
            bbConnections[bb] # None =>
                /\ bbConnections[bb] \in opened
                /\ \A r \in Subscribers :
                       Registered(r) => calls[r][bbConnections[bb]].added >= 1

\* ========================================================================
\* AMQP request/response (modules/amqp.js)
\* ========================================================================
Cids == 1..MaxCalls
ReplyCids == 0..MaxCalls          \* 0: a message without a correlation id

NoWaiter == [state |-> "none", value |-> 0, resolves |-> 0, rejects |-> 0]

\* a promise takes the first resolve or reject; later calls change nothing
Resolve(w, v) ==
    [w EXCEPT !.resolves = @ + 1,
              !.state = IF w.state = "pending" THEN "resolved" ELSE @,
              !.value = IF w.state = "pending" THEN v ELSE @]
Reject(w) ==
    [w EXCEPT !.rejects = @ + 1,
              !.state = IF w.state = "pending" THEN "rejected" ELSE @]

\* the handler is left in the table when a reply is delivered
DeliveredKept(table, cid) == table

\* message handler line 87: the entry is removed before the handler runs
Delivered(table, cid) == table \ {cid}

\* Request(sender, messageBody, ap, destination, timeoutSeconds): the timer is
\* armed, the handler registered and the message sent in one step
Request ==
    /\ nextCid <= MaxCalls
    /\ LET cid == nextCid IN
       /\ requestTimers' = requestTimers \cup {cid}
       /\ inFlight' = inFlight \cup {cid}
       /\ waiters' = [waiters EXCEPT ![cid].state = "pending"]
    /\ nextCid' = nextCid + 1
    /\ UNCHANGED <<network, replied>>
    /\ UNCHANGED <<senderVars, templateVars>>
    /\ UNCHANGED <<syncVars, claimVars, certVars, deployVars, linkVars>>

\* some peer sends a message to the reply address; its correlation id is
\* whatever the peer put into it
PeerReplies(cid) ==
    /\ replied < MaxReplies
    /\ replied' = replied + 1
    /\ network' = [network EXCEPT ![cid] = @ + 1]
    /\ UNCHANGED <<nextCid, inFlight, requestTimers, waiters>>
    /\ UNCHANGED <<senderVars, templateVars>>
    /\ UNCHANGED <<syncVars, claimVars, certVars, deployVars, linkVars>>

\* container.on("message") for the reply receiver, lines 78-92, and the
\* handler registered at lines 269-272
OnReplyMessage(cid) ==
    /\ network[cid] > 0
    /\ network' = [network EXCEPT ![cid] = @ - 1]
    /\ IF cid # 0 /\ cid \in inFlight
       THEN /\ inFlight' = Delivered(inFlight, cid)
            /\ requestTimers' = requestTimers \ {cid}
            /\ waiters' = [waiters EXCEPT ![cid] = Resolve(@, cid)]
       ELSE UNCHANGED <<inFlight, requestTimers, waiters>>
    /\ UNCHANGED <<nextCid, replied>>
    /\ UNCHANGED <<senderVars, templateVars>>
    /\ UNCHANGED <<syncVars, claimVars, certVars, deployVars, linkVars>>

\* the timer callback of lines 263-266
RequestTimeout(cid) ==
    /\ cid \in requestTimers
    /\ requestTimers' = requestTimers \ {cid}
    /\ inFlight' = inFlight \ {cid}
    /\ waiters' = [waiters EXCEPT ![cid] = Reject(@)]
    /\ UNCHANGED <<nextCid, network, replied>>
    /\ UNCHANGED <<senderVars, templateVars>>
    /\ UNCHANGED <<syncVars, claimVars, certVars, deployVars, linkVars>>

\* ---- producers (rhea_handlers, OpenSender)
ReplyAddresses == {"r1", "r2"}

\* a sender is notified whatever conn.replyTo holds
ReplyToKnownAlways(address) == TRUE

\* line 67: conn.replyTo != undefined
ReplyToKnown(address) == address # Undefined

\* lines 50-51 and 68-70: the callback of the sender is called; the callback
\* of the asynchronous variant resolves the promise of OpenSender
Notified(sender) ==
    [sender EXCEPT !.notified = TRUE, !.calls = @ + 1,
                   !.resolves = IF sender.async THEN @ + 1 ELSE @]

\* OpenSender(logName, conn, address, onSendable, context): the synchronous
\* variant when a callback is given, the asynchronous one when not
OpenSender(async) ==
    /\ Len(senders) < MaxSenders
    /\ senders' = Append(senders, [async |-> async, sendable |-> FALSE, notified |-> FALSE,
                                    credit |-> FALSE, calls |-> 0, resolves |-> 0])
    /\ UNCHANGED <<nextCid, inFlight, requestTimers, waiters, network, replied, replyTo>>
    /\ UNCHANGED templateVars
    /\ UNCHANGED <<syncVars, claimVars, certVars, deployVars, linkVars>>

\* container.on("receiver_open") for the reply receiver of the connection,
\* lines 38-53
OnReceiverOpen(address) ==
    /\ LET firstTime == replyTo = Undefined IN
       /\ replyTo' = address
       /\ senders' = IF firstTime
                     THEN [i \in DOMAIN senders |->
                             IF senders[i].sendable /\ ~senders[i].notified
                             THEN Notified(senders[i]) ELSE senders[i]]
                     ELSE senders
    /\ UNCHANGED <<nextCid, inFlight, requestTimers, waiters, network, replied>>
    /\ UNCHANGED templateVars
    /\ UNCHANGED <<syncVars, claimVars, certVars, deployVars, linkVars>>

\* container.on("sendable") for sender i of the connection, lines 62-76
OnSendableEvent(i) ==
    /\ i \in DOMAIN senders
    /\ LET sender == [senders[i] EXCEPT !.credit = TRUE] IN
       senders' = [senders EXCEPT ![i] =
            IF sender.notified THEN sender
            ELSE IF ReplyToKnown(replyTo)
                 THEN Notified([sender EXCEPT !.sendable = TRUE])
                 ELSE [sender EXCEPT !.sendable = TRUE]]
    /\ UNCHANGED <<nextCid, inFlight, requestTimers, waiters, network, replied, replyTo>>
    /\ UNCHANGED templateVars
    /\ UNCHANGED <<syncVars, claimVars, certVars, deployVars, linkVars>>

NextSenders ==
    \/ \E async \in BOOLEAN : OpenSender(async)
    \/ \E address \in ReplyAddresses : OnReceiverOpen(address)
    \/ \E i \in 1..MaxSenders : OnSendableEvent(i)

\* ---- the engine started without a receive address (Start with _address
\* undefined), on the connection to its network
engineRest == <<peers, processingContext, task, initialBeacon, arrived, completed, drains, log,
                heartbeats, timers, beats, armedDelay, extraTargets, bridgeVars,
                claimVars, certVars, deployVars, linkVars,
                nextCid, inFlight, requestTimers, waiters, network, replied, templateVars>>

DynamicAddresses == {"d1"}

\* onSendable("net") of the engine, when the producer calls it
EngineSendable(called) ==
    /\ pendingSendable' = IF called THEN pendingSendable \ {"net"} ELSE pendingSendable
    /\ IF called /\ initialBeacon
       THEN rounds < MaxRounds /\ SendInitialBeacon(beaconTimers)
       ELSE UNCHANGED <<rounds, sentBeacons, beaconTimers>>

\* AddConnection(undefined, conn) with localAddress not set: the sender with
\* the onSendable callback is opened, then the dynamic receiver with the
\* onAddress callback; addressToUse is left as it is
AddNetConnection ==
    /\ apiReceiver = "none"
    /\ Len(senders) < MaxSenders
    /\ connections' = connections \cup {ConnectionKey(Undefined)}
    /\ sessions' = sessions \cup {Undefined}
    /\ pendingSendable' = pendingSendable \cup {ConnectionKey(Undefined)}
    /\ senders' = Append(senders, [async |-> FALSE, sendable |-> FALSE, notified |-> FALSE,
                                    credit |-> FALSE, calls |-> 0, resolves |-> 0])
    /\ apiReceiver' = "opening"
    /\ UNCHANGED <<beaconTimers, sentBeacons, rounds, replyTo, addressToUse, addressedAt>>
    /\ UNCHANGED engineRest

\* container.on("receiver_open") for conn.replyReceiver, lines 38-53: the
\* senders that waited for the reply address are notified
ReplyReceiverOpens(address) ==
    LET firstTime == replyTo = Undefined
        waiting   == { i \in DOMAIN senders : senders[i].sendable /\ ~senders[i].notified }
    IN
    /\ replyTo' = address
    /\ senders' = IF firstTime
                  THEN [i \in DOMAIN senders |->
                          IF i \in waiting THEN Notified(senders[i]) ELSE senders[i]]
                  ELSE senders
    /\ EngineSendable(firstTime /\ waiting # {})
    /\ UNCHANGED <<connections, sessions, addressToUse, apiReceiver, addressedAt>>
    /\ UNCHANGED engineRest

\* container.on("sendable") for the sender of the engine, lines 62-76
SenderSendable(i) ==
    /\ i \in DOMAIN senders
    /\ LET sender   == [senders[i] EXCEPT !.credit = TRUE]
           notifies == ~sender.notified /\ ReplyToKnown(replyTo)
       IN
       /\ senders' = [senders EXCEPT ![i] =
                IF sender.notified THEN sender
                ELSE IF notifies THEN Notified([sender EXCEPT !.sendable = TRUE])
                     ELSE [sender EXCEPT !.sendable = TRUE]]
       /\ EngineSendable(notifies)
    /\ UNCHANGED <<connections, sessions, replyTo, addressToUse, apiReceiver, addressedAt>>
    /\ UNCHANGED engineRest

\* container.on("receiver_open") for the dynamic receiver of the engine,
\* lines 54-59, which calls onAddress("net", address): addressToUse = address
ApiReceiverOpens(address) ==
    /\ apiReceiver = "opening"
    /\ apiReceiver' = "open"
    /\ addressToUse' = address
    /\ addressedAt' = Len(sentBeacons)
    /\ UNCHANGED <<connections, sessions, pendingSendable, beaconTimers, sentBeacons, rounds,
                   replyTo, senders>>
    /\ UNCHANGED engineRest

NextDynamic ==
    \/ \E t \in Targets : AddTarget(t)
    \/ AddNetConnection
    \/ \E address \in ReplyAddresses : ReplyReceiverOpens(address)
    \/ \E i \in 1..MaxSenders : SenderSendable(i)
    \/ \E address \in DynamicAddresses : ApiReceiverOpens(address)
    \/ BeaconTimerFires

\* the address argument of protocol.Heartbeat for beacon j, lines 214-219:
\* what addressToUse held when the beacon was made
Carried(j) ==
    IF addressToUse # Undefined /\ j > addressedAt THEN addressToUse ELSE Undefined

\* C40: an engine started without a receive address sends no beacon before
\* the dynamically allocated address is known: every beacon sent carries
\* the address on which the engine receives.
C40_BeaconsCarryAddress ==
    \A j \in DOMAIN sentBeacons : Carried(j) # Undefined

InitAmqp ==
    /\ replyTo = Undefined
    /\ senders = <<>>
    /\ nextCid = 1
    /\ inFlight = {}
    /\ requestTimers = {}
    /\ waiters = [cid \in Cids |-> NoWaiter]
    /\ network = [cid \in ReplyCids |-> 0]
    /\ replied = 0

NextAmqp ==
    \/ Request
    \/ \E cid \in ReplyCids : PeerReplies(cid)
    \/ \E cid \in ReplyCids : OnReplyMessage(cid)
    \/ \E cid \in Cids : RequestTimeout(cid)

\* the event loop runs every timer that is not cancelled
FairAmqp == \A cid \in Cids : WF_vars(RequestTimeout(cid))

\* ------------------------------------------------------------------------
\* Properties of the request/response layer
\* ------------------------------------------------------------------------
\* sender i has had a sendable event and the reply address is known
SendableAndAddressed(i) == senders[i].credit /\ replyTo # Undefined

\* C27: the sendable callback of a producer is called at most once, in the
\* very step in which the later of the two events happens, its becoming
\* sendable and the reply address becoming known; the promise of the
\* asynchronous OpenSender is resolved in that step and not before.
C27_SendableCallbackOnce ==
    /\ [](\A i \in DOMAIN senders :
            /\ senders[i].calls <= 1
            /\ senders[i].calls = 1 => SendableAndAddressed(i)
            /\ senders[i].resolves = (IF senders[i].async THEN senders[i].calls ELSE 0))
    /\ [][\A i \in DOMAIN senders :
            senders'[i].calls > senders[i].calls =>
                /\ ~SendableAndAddressed(i)
                /\ senders'[i].credit /\ replyTo' # Undefined]_vars

\* a synchronous sender was notified and an asynchronous OpenSender resolved
\* while a third sender, opened as well, has not become sendable
C27_Witness ==
    \E i, j, k \in DOMAIN senders :
        /\ senders[i].async /\ senders[i].resolves = 1
        /\ ~senders[j].async /\ senders[j].calls = 1
        /\ ~senders[k].credit /\ senders[k].calls = 0

Settled(cid) == waiters[cid].state \in {"resolved", "rejected"}

String(piece) == [type |-> "string", text |-> <<piece>>]
EmptyString   == [type |-> "string", text |-> <<>>]
Zero          == [type |-> "number", text |-> <<"0">>]
Values        == {String("v"), EmptyString, Zero}

\* what JavaScript takes for true in a condition
Truthy(value) == value # EmptyString /\ value # Zero

\* the pieces of a template: text outside {{ }} and the inner text of a
\* directive, a keyword followed by a variable with its prefix and path
Literal(text) ==
    [kind |-> "text", keyword |-> "", text |-> text, prefix |-> "", path |-> <<>>]
Directive(keyword, prefix, path) ==
    [kind |-> "directive", keyword |-> keyword, text |-> "", prefix |-> prefix, path |-> path]

Segments ==
    { Literal("A"),
      Directive("", ".", <<"x">>), Directive("", "$", <<"r", "n">>),
      Directive("", ".", <<"z">>),
      Directive("if ", ".", <<"x">>), Directive("if ", "$", <<"r", "n">>),
      Directive("else", "", <<>>), Directive("end", "", <<>>) }

Scopes ==
    { [local |-> [x |-> v], remote |-> [r |-> [n |-> w]]] : v, w \in Values }

\* if, else and end nest properly from piece i on; stack holds, for every
\* open if, whether its else has been seen
RECURSIVE Nested(_, _, _)
Nested(segs, i, stack) ==
    IF i > Len(segs) THEN stack = <<>>
    ELSE LET kw == segs[i].keyword
             n  == Len(stack)
         IN
         IF kw = "if " THEN Nested(segs, i + 1, Append(stack, FALSE))
         ELSE IF kw = "else"
              THEN n > 0 /\ ~stack[n] /\ Nested(segs, i + 1, [stack EXCEPT ![n] = TRUE])
         ELSE IF kw = "end" THEN n > 0 /\ Nested(segs, i + 1, SubSeq(stack, 1, n - 1))
         ELSE Nested(segs, i + 1, stack)

Templates ==
    { t \in UNION { [1..n -> Segments] : n \in 1..MaxTokens } : Nested(t, 1, <<>>) }

\* Token.Parse lines 151-161: the directive is classified by how its inner
\* text starts
Parse(segment) ==
    [type |-> IF segment.kind = "text" THEN "LITERAL"
              ELSE IF segment.keyword = "if " THEN "IF"
              ELSE IF segment.keyword = "else" THEN "ELSE"
              ELSE IF segment.keyword = "end" THEN "END"
              ELSE "VARIABLE",
     text |-> segment.text, prefix |-> segment.prefix, path |-> segment.path]

Threw(st) == [st |-> st, result |-> "THROW"]

\* Arrange line 167, the first statement: if (tokenList.length == 0)
ListEmpty(tokens, i, st) == st.pos > Len(tokens)

\* Token.Arrange(tokenList) of token i; st.pos is the first token still in
\* the list, and 0 stands for a link that is not set
RECURSIVE Arrange(_, _, _)
Arrange(tokens, i, st) ==
    IF ListEmpty(tokens, i, st) THEN [st |-> st, result |-> "END_WITH_EOS"]
    ELSE IF tokens[i].type = "ELSE" THEN [st |-> st, result |-> "END_WITH_ELSE"]
    ELSE IF tokens[i].type = "END" THEN [st |-> st, result |-> "END_WITH_END"]
    ELSE
    LET head    == st.pos
        shifted == [st EXCEPT !.pos = @ + 1]
    IN
    IF tokens[i].type \in {"LITERAL", "VARIABLE"}
    THEN Arrange(tokens, head, [shifted EXCEPT !.next[i] = head])
    ELSE
    LET thenResult == Arrange(tokens, head, [shifted EXCEPT !.thenClause[i] = head])
        clauses ==
            IF thenResult.result \in {"THROW", "END_WITH_EOS"} THEN Threw(thenResult.st)
            ELSE IF thenResult.result = "END_WITH_END" THEN thenResult
            ELSE IF thenResult.st.pos > Len(tokens) THEN Threw(thenResult.st)
            ELSE LET else == thenResult.st.pos
                     elseResult ==
                        Arrange(tokens, else,
                                [thenResult.st EXCEPT !.pos = @ + 1, !.elseClause[i] = else])
                 IN IF elseResult.result = "END_WITH_END" THEN elseResult
                    ELSE Threw(elseResult.st)
    IN
    IF clauses.result = "THROW" THEN clauses
    ELSE IF clauses.st.pos <= Len(tokens)
         THEN Arrange(tokens, clauses.st.pos,
                      [clauses.st EXCEPT !.pos = @ + 1, !.next[i] = clauses.st.pos])
         ELSE [st |-> clauses.st, result |-> "END_WITH_EOS"]

\* the loop of lines 255-262: the value under the path elements, if every
\* element is a key on the way
RECURSIVE Traverse(_, _)
Traverse(traverse, pathElements) ==
    IF pathElements = <<>> THEN [found |-> TRUE, value |-> traverse]
    ELSE IF Head(pathElements) \notin DOMAIN traverse
         THEN [found |-> FALSE, value |-> EmptyString]
         ELSE Traverse(traverse[Head(pathElements)], Tail(pathElements))

\* the name under which a variable is recorded and rendered
Content(token) == <<token.prefix>> \o token.path

Unresolved(token) ==
    [type |-> "string", text |-> <<"UNDEFINED[">> \o Content(token) \o <<"]">>]

\* Token._value: [found, value]; a local name is one key
TokenValue(token, localData, remoteData) ==
    IF token.prefix = "."
    THEN IF token.path[1] \in DOMAIN localData
         THEN [found |-> TRUE, value |-> localData[token.path[1]]]
         ELSE [found |-> FALSE, value |-> Unresolved(token)]
    ELSE IF token.prefix = "$"
         THEN LET r == Traverse(remoteData, token.path) IN
              IF r.found THEN r ELSE [found |-> FALSE, value |-> Unresolved(token)]
         ELSE [found |-> TRUE, value |-> Unresolved(token)]

\* line 224: val ? val.toString() : 'undefined'
Rendered(value) == IF Truthy(value) THEN value.text ELSE <<"undefined">>

\* Token.Expand of token i over the links set by Arrange; threw stands for
\* the TypeError of line 230, this.thenClause.Expand on a then clause that
\* Arrange never set
RECURSIVE TokenExpand(_, _, _, _, _)
TokenExpand(tokens, tree, i, sc, unresolvable) ==
    LET token == tokens[i]
        val   == TokenValue(token, sc.local, sc.remote)
        seen  == IF token.type \in {"VARIABLE", "IF"} /\ ~val.found
                 THEN unresolvable \cup {Content(token)} ELSE unresolvable
        own   ==
            IF token.type = "LITERAL"
            THEN [text |-> <<token.text>>, unresolvable |-> seen, threw |-> FALSE]
            ELSE IF token.type = "VARIABLE"
                 THEN [text |-> Rendered(val.value), unresolvable |-> seen, threw |-> FALSE]
            ELSE IF token.type = "IF"
                 THEN IF Truthy(val.value)
                      THEN IF tree.thenClause[i] # 0
                           THEN TokenExpand(tokens, tree, tree.thenClause[i], sc, seen)
                           ELSE [text |-> <<>>, unresolvable |-> seen, threw |-> TRUE]
                      ELSE IF tree.elseClause[i] # 0
                           THEN TokenExpand(tokens, tree, tree.elseClause[i], sc, seen)
                           ELSE [text |-> <<>>, unresolvable |-> seen, threw |-> FALSE]
            ELSE [text |-> <<>>, unresolvable |-> seen, threw |-> FALSE]
    IN
    IF ~own.threw /\ tree.next[i] # 0
    THEN LET rest == TokenExpand(tokens, tree, tree.next[i], sc, own.unresolvable) IN
         [text |-> own.text \o rest.text, unresolvable |-> rest.unresolvable,
          threw |-> rest.threw]
    ELSE own

\* parseError: the call threw while the tokens were arranged into the tree
NotExpanded ==
    [called |-> FALSE, threw |-> FALSE, parseError |-> FALSE, text |-> <<>>,
     unresolvable |-> {}]

\* Expand(template, localData, remoteData, unresolvable)
Expand(segs, sc) ==
    LET tokens == [i \in DOMAIN segs |-> Parse(segs[i])]
        none   == [i \in DOMAIN segs |-> 0]
        result == Arrange(tokens, 1, [pos |-> 2, next |-> none, thenClause |-> none,
                                      elseClause |-> none])
    IN
    IF segs = <<>> \/ result.result # "END_WITH_EOS"
    THEN [called |-> TRUE, threw |-> TRUE, parseError |-> TRUE, text |-> <<>>,
          unresolvable |-> {}]
    ELSE LET out == TokenExpand(tokens, result.st, 1, sc, {}) IN
         [called |-> TRUE, threw |-> out.threw, parseError |-> FALSE,
          text |-> IF out.threw THEN <<>> ELSE out.text,
          unresolvable |-> out.unresolvable]

\* Expand is called for the template with the data in scope
CallExpand ==
    /\ ~expansion.called
    /\ expansion' = Expand(template, scope)
    /\ UNCHANGED <<template, scope, hashVars, composeVars, controllerVars>>
    /\ UNCHANGED <<nextCid, inFlight, requestTimers, waiters, network, replied, senderVars>>
    /\ UNCHANGED <<syncVars, claimVars, certVars, deployVars, linkVars>>

NextExpand == CallExpand

\* the same call on any template, properly nested or not
AllTemplates == UNION { [1..n -> Segments] : n \in 1..MaxTokens }
ParseScopes  == { sc \in Scopes : sc.remote.r.n = String("v") }
NextParse == CallExpand

\* C38: parsing raises an error exactly for the templates whose if, else and
\* end directives are not properly nested (an end or else without its if, an
\* if that is never closed), wherever the directives stand, an end as the
\* last token included.
C38_ErrorIffNotNested ==
    expansion.called => (expansion.parseError <=> ~Nested(template, 1, <<>>))

\* ---- substitution by hand
\* the value of the variable of a directive, when it is in scope
InScope(seg, sc) ==
    IF seg.prefix = "." THEN seg.path[1] \in DOMAIN sc.local
    ELSE seg.prefix = "$" /\ Traverse(sc.remote, seg.path).found
ValueOf(seg, sc) ==
    IF seg.prefix = "." THEN sc.local[seg.path[1]] ELSE Traverse(sc.remote, seg.path).value

\* every variable the template refers to is in scope
AllPresent(segs, sc) ==
    \A i \in DOMAIN segs :
        (segs[i].kind = "directive" /\ segs[i].keyword \in {"", "if "}) => InScope(segs[i], sc)

\* the else (depth 1) or end (depth 0) that belongs to the if whose body
\* starts at piece i
RECURSIVE Closer(_, _, _, _)
Closer(segs, i, depth, keyword) ==
    LET kw == segs[i].keyword IN
    IF kw = "if " THEN Closer(segs, i + 1, depth + 1, keyword)
    ELSE IF kw = "end"
         THEN IF depth = 0 THEN (IF keyword = "end" THEN i ELSE 0)
              ELSE Closer(segs, i + 1, depth - 1, keyword)
    ELSE IF kw = "else" /\ depth = 0 /\ keyword = "else" THEN i
    ELSE Closer(segs, i + 1, depth, keyword)

\* the text of a well-formed template with every variable replaced by the
\* text of its value and every if by the branch its condition selects
RECURSIVE Substituted(_, _)
Substituted(segs, sc) ==
    IF segs = <<>> THEN <<>>
    ELSE LET seg == Head(segs) IN
         IF seg.kind = "text" THEN <<seg.text>> \o Substituted(Tail(segs), sc)
         ELSE IF seg.keyword = "" THEN ValueOf(seg, sc).text \o Substituted(Tail(segs), sc)
         ELSE LET end      == Closer(segs, 2, 0, "end")
                  else     == Closer(segs, 2, 0, "else")
                  thenPart == SubSeq(segs, 2, (IF else # 0 THEN else ELSE end) - 1)
                  elsePart == IF else # 0 THEN SubSeq(segs, else + 1, end - 1) ELSE <<>>
              IN (IF Truthy(ValueOf(seg, sc)) THEN Substituted(thenPart, sc)
                  ELSE Substituted(elsePart, sc))
                 \o Substituted(SubSeq(segs, end + 1, Len(segs)), sc)

\* C29: for a template all of whose variables are in scope, Expand returns
\* the text of the substitution by hand and records nothing as unresolvable.
C29_ExpandIsSubstitution ==
    (expansion.called /\ AllPresent(template, scope)) =>
        /\ ~expansion.threw
        /\ expansion.text = Substituted(template, scope)
        /\ expansion.unresolvable = {}

\* ========================================================================
\* Application compose engine (compose.js)
\* ========================================================================
MemberIds   == {"m1", "m2"}
SiteClasses == {"c1", "c2"}
NoSite      == {"<none>"}

\* the instance blocks of the built application, in the order of
\* Object.values: the derivative's allocateToSite and siteClasses, and the
\* templates of the simple body of the library block
InstanceBlocks ==
    << [name |-> "b1", allocateToSite |-> TRUE, siteClasses |-> {"c1"},
        body |-> << <<Literal("A")>> >>],
       [name |-> "b2", allocateToSite |-> TRUE, siteClasses |-> {"c2"},
        body |-> << <<Literal("A")>>, <<Directive("", ".", <<"x">>)>> >>],
       [name |-> "b3", allocateToSite |-> FALSE, siteClasses |-> {"c1"},
        body |-> << <<Literal("A")>> >>] >>

\* InstanceBlock.siteClassMatches(siteClasses)
SiteClassMatches(block, siteClasses) == block.siteClasses \cap siteClasses # {}

\* the blocks allocated to a site with these classes
Allocated(siteClasses) ==
    SelectSeq(InstanceBlocks,
              LAMBDA b : b.allocateToSite /\ SiteClassMatches(b, siteClasses))

\* expandBlock for a block without interfaces: one text for every template
\* of the body, the block's configuration being the local scope
ExpandBlock(block) ==
    [i \in DOMAIN block.body |->
        Expand(block.body[i], [local |-> [x |-> String(block.name)], remote |-> <<>>]).text]

RECURSIVE Concatenated(_)
Concatenated(texts) ==
    IF texts = <<>> THEN <<>> ELSE Head(texts) \o Concatenated(Tail(texts))

\* addMemberSite lines 1047-1084: the accumulated site configuration
RECURSIVE SiteConfiguration(_)
SiteConfiguration(blocks) ==
    IF blocks = <<>> THEN <<>>
    ELSE ExpandBlock(Head(blocks)) \o SiteConfiguration(Tail(blocks))

\* addMemberSite lines 1086-1093: the rows of the site after the call
WithMemberSite(rows, siteClasses) ==
    LET siteConfiguration == SiteConfiguration(Allocated(siteClasses)) IN
    IF Len(siteConfiguration) > 0
    THEN Append(rows, [format |-> "application/yaml",
                       configuration |-> Concatenated(siteConfiguration)])
    ELSE rows

\* postDeployment: a deployment of the application to the VAN is created
PostDeployment ==
    /\ deployment = "none"
    /\ deployment' = "created"
    /\ UNCHANGED <<vanSites, siteData, hashVars, expandVars, controllerVars>>
    /\ UNCHANGED <<nextCid, inFlight, requestTimers, waiters, network, replied, senderVars>>
    /\ UNCHANGED <<syncVars, claimVars, certVars, deployVars, linkVars>>

\* deployDeployment with deployApplication: addMemberSite for every
\* MemberSites row of the VAN, in one transaction
DeployDeployment ==
    /\ deployment = "created"
    /\ deployment' = "deployed"
    /\ siteData' = [m \in MemberIds |->
            IF vanSites[m] = NoSite THEN siteData[m]
            ELSE WithMemberSite(siteData[m], vanSites[m])]
    /\ UNCHANGED <<vanSites, hashVars, expandVars, controllerVars>>
    /\ UNCHANGED <<nextCid, inFlight, requestTimers, waiters, network, replied, senderVars>>
    /\ UNCHANGED <<syncVars, claimVars, certVars, deployVars, linkVars>>

\* deleteDeployment: the SiteData rows go with the deployment
DeleteDeployment ==
    /\ deployment # "none"
    /\ deployment' = "none"
    /\ siteData' = [m \in MemberIds |-> <<>>]
    /\ UNCHANGED <<vanSites, hashVars, expandVars, controllerVars>>
    /\ UNCHANGED <<nextCid, inFlight, requestTimers, waiters, network, replied, senderVars>>
    /\ UNCHANGED <<syncVars, claimVars, certVars, deployVars, linkVars>>

\* a member site joins the VAN: the claim server inserts its MemberSites
\* row (claim-server.js line 184); AddMemberSite(siteid), lines 2234-2235,
\* has an empty body and nothing else touches SiteData
AddMemberSite(m, siteClasses) ==
    /\ vanSites[m] = NoSite
    /\ vanSites' = [vanSites EXCEPT ![m] = siteClasses]
    /\ UNCHANGED <<deployment, siteData, hashVars, expandVars, controllerVars>>
    /\ UNCHANGED <<nextCid, inFlight, requestTimers, waiters, network, replied, senderVars>>
    /\ UNCHANGED <<syncVars, claimVars, certVars, deployVars, linkVars>>

InitCompose ==
    /\ vanSites = [m \in MemberIds |-> NoSite]
    /\ deployment = "none"
    /\ siteData = [m \in MemberIds |-> <<>>]

NextCompose ==
    \/ PostDeployment
    \/ DeployDeployment
    \/ DeleteDeployment
    \/ \E m \in MemberIds : \E siteClasses \in SUBSET SiteClasses : AddMemberSite(m, siteClasses)

\* C30: while the application is deployed, a VAN without member sites has no
\* SiteData row, and every member site of the VAN whose classes match one
\* allocated block has exactly one SiteData row, a YAML document.
C30_OneDocumentPerMatchingSite ==
    deployment = "deployed" =>
        /\ (\A m \in MemberIds : vanSites[m] = NoSite) =>
                \A m \in MemberIds : siteData[m] = <<>>
        /\ \A m \in MemberIds :
                (vanSites[m] # NoSite /\ Len(Allocated(vanSites[m])) = 1) =>
                    /\ Len(siteData[m]) = 1
                    /\ siteData[m][1].format = "application/yaml"

\* ========================================================================
\* Finalization of a credential (secretAdded, onSecretWatch)
\* ========================================================================
\* every variable outside the controller sections below
nonControllerVars == <<syncVars, claimVars, certVars, deployVars, linkVars,
                       nextCid, inFlight, requestTimers, waiters, network, replied, senderVars,
                       hashVars, expandVars, composeVars, loopVars>>

\* the column of the CertificateRequests row that names the target
RequestTargets == {"backbone", "interiorsite", "accesspoint", "site"}

NewFinalizer == [pc |-> "begin", alerted |-> FALSE]

\* lines 2696-2718: the notification that the target of the request asks for
AlertOf(kind) ==
    CASE kind = "interiorsite" -> <<"SiteCertificateChanged">>
      [] kind = "accesspoint"  -> <<"AccessCertificateChanged">>
      [] kind = "site"         -> <<"CompleteMember">>
      [] OTHER                 -> <<>>

\* the notifications are made where the handler is before the COMMIT
AlertsBeforeCommit(pc) == pc = "written"

\* lines 2751-2768: the notifications follow the awaited COMMIT
AlertsAt(pc) == pc = "committed"

\* a key may be inserted twice
KeyTakenNever(rows) == FALSE

\* db-setup.sql line 105: Id UUID PRIMARY KEY; the INSERT of a row whose key
\* a committed row has raises
KeyTaken(rows) == rows >= 1

\* the reconciler of the target's table has inserted the request and the
\* request loop has made the certificate object (the request id is its dblink)
RequestCreated(kind) ==
    /\ finalKind = None
    /\ finalKind' = kind
    /\ finalRequest' = TRUE
    /\ UNCHANGED <<finalTls, finalEntity, finalizers, writer, alerts, commits>>
    /\ UNCHANGED nonControllerVars

\* onSecretWatch: ADDED for the secret of the request; secretAdded is called
\* and not awaited, it takes a client and begins (lines 2666-2668)
OnSecretWatch ==
    /\ finalKind # None
    /\ Len(finalizers) < MaxEvents
    /\ finalizers' = Append(finalizers, NewFinalizer)
    /\ UNCHANGED <<finalKind, finalRequest, finalTls, finalEntity, writer, alerts, commits>>
    /\ UNCHANGED nonControllerVars

\* lines 2669-2678 and 2764-2769: SELECT the request; without a row the
\* transaction is rolled back
SecretAddedSelects(i) ==
    /\ finalizers[i].pc = "begin"
    /\ finalizers' = [finalizers EXCEPT ![i].pc =
                        IF finalRequest THEN "selected" ELSE "rolledback"]
    /\ UNCHANGED <<finalKind, finalRequest, finalTls, finalEntity, writer, alerts, commits>>
    /\ UNCHANGED nonControllerVars

\* lines 2721-2743: LoadCertificate, the name of the target, INSERT INTO
\* TlsCertificates with the request id as Id (it waits while another
\* transaction holds that key), UPDATE of the target, DELETE of the request
SecretAddedWrites(i) ==
    /\ finalizers[i].pc = "selected"
    /\ writer = 0
    /\ IF KeyTaken(finalTls)
       THEN /\ finalizers' = [finalizers EXCEPT ![i].pc = "rolledback"]
            /\ UNCHANGED writer
       ELSE /\ finalizers' = [finalizers EXCEPT ![i].pc = "written"]
            /\ writer' = i
    /\ UNCHANGED <<finalKind, finalRequest, finalTls, finalEntity, alerts, commits>>
    /\ UNCHANGED nonControllerVars

\* lines 2772-2775: a statement of the transaction, LoadCertificate,
\* ApplyObject or the COMMIT raises; ROLLBACK
SecretAddedRaises(i) ==
    /\ finalizers[i].pc \in {"selected", "written"}
    /\ finalizers' = [finalizers EXCEPT ![i].pc = "rolledback"]
    /\ writer' = IF writer = i THEN 0 ELSE writer
    /\ UNCHANGED <<finalKind, finalRequest, finalTls, finalEntity, alerts, commits>>
    /\ UNCHANGED nonControllerVars

\* line 2751: COMMIT
SecretAddedCommits(i) ==
    /\ finalizers[i].pc = "written"
    /\ finalizers' = [finalizers EXCEPT ![i].pc = "committed"]
    /\ writer' = 0
    /\ finalTls' = finalTls + 1
    /\ finalEntity' = "ready"
    /\ finalRequest' = FALSE
    /\ commits' = commits + 1
    /\ UNCHANGED <<finalKind, alerts>>
    /\ UNCHANGED nonControllerVars

\* lines 2756-2768: SiteCertificateChanged, AccessCertificateChanged or
\* CompleteMember, as the target asks; each is noted with whether the
\* certificate row is to be seen in the database when it is called
SecretAddedAlerts(i) ==
    /\ AlertsAt(finalizers[i].pc)
    /\ ~finalizers[i].alerted
    /\ finalizers' = [finalizers EXCEPT ![i].alerted = TRUE]
    /\ alerts' = alerts \o [j \in DOMAIN AlertOf(finalKind) |->
                              [by |-> i, call |-> AlertOf(finalKind)[j], visible |-> finalTls >= 1]]
    /\ UNCHANGED <<finalKind, finalRequest, finalTls, finalEntity, writer, commits>>
    /\ UNCHANGED nonControllerVars

\* line 2777: client.release() after the notifications
SecretAddedReleases(i) ==
    /\ finalizers[i].pc = "committed"
    /\ finalizers[i].alerted
    /\ finalizers' = [finalizers EXCEPT ![i].pc = "released"]
    /\ UNCHANGED <<finalKind, finalRequest, finalTls, finalEntity, writer, alerts, commits>>
    /\ UNCHANGED nonControllerVars

\* ------------------------------------------------------------------------
\* Reconciler loops (processNewManagementControllers, processNewBackbones,
\* processNewCertificateRequests): each run re-arms its own timer
\* ------------------------------------------------------------------------
nonLoopVars == <<syncVars, claimVars, certVars, deployVars, linkVars,
                 nextCid, inFlight, requestTimers, waiters, network, replied, senderVars,
                 hashVars, expandVars, composeVars, finalVars>>

Loops == {"mgmt", "backbone", "request"}

\* the await of a run that rejects, if any: ClientFromPool, the BEGIN or
\* SELECT, the INSERT or UPDATE of the row, the COMMIT
FaultPoints == {"none", "pool", "select", "update", "commit"}

\* Start: setTimeout(processNew..., 1000) for every loop
StartedLoop == [rows |-> 0, scheduled |-> 1, armed |-> 1000, outcome |-> "start"]

\* var reschedule_delay of lines 2277, 2311 and 2567
DefaultDelay(l) == IF l = "mgmt" THEN 5000 ELSE 2000

\* a row in state 'new' is inserted into the table the loop selects from
NewRow(l) ==
    /\ loops[l].rows < MaxRows
    /\ loops' = [loops EXCEPT ![l].rows = @ + 1]
    /\ UNCHANGED nonLoopVars

\* one run of the loop, from its timer to its finally block. at names the
\* await that rejects; rollbackRaises: the ROLLBACK of the catch block
\* rejects as well (the connection that failed the query is the one that
\* carries the ROLLBACK)
ProcessNew(l, at, rollbackRaises) ==
    LET L       == loops[l]
        hasRow  == L.rows >= 1
        raised  == at \in {"select", "commit"} \/ (at = "update" /\ hasRow)
        \* reschedule_delay when the try block is left
        tried   == IF hasRow /\ at \in {"none", "commit"} THEN 0 ELSE DefaultDelay(l)
        delay   == IF raised /\ ~rollbackRaises THEN 10000 ELSE tried
    IN
    /\ L.scheduled >= 1
    /\ at = "update" => hasRow
    /\ rollbackRaises => raised
    /\ loops' = [loops EXCEPT ![l] =
            IF at = "pool"
            THEN \* line 2278 is outside the try block: nothing after it runs
                 [L EXCEPT !.scheduled = @ - 1, !.outcome = "noclient"]
            ELSE [rows      |-> IF hasRow /\ ~raised THEN L.rows - 1 ELSE L.rows,
                  scheduled |-> L.scheduled - 1 + 1,
                  armed     |-> delay,
                  outcome   |-> IF raised THEN "error"
                                ELSE IF hasRow THEN "row" ELSE "empty"]]
    /\ UNCHANGED nonLoopVars

NextLoops ==
    \/ \E l \in Loops : NewRow(l)
    \/ \E l \in Loops, at \in FaultPoints, rollbackRaises \in BOOLEAN :
            ProcessNew(l, at, rollbackRaises)

\* the delay the loop is to wait after a run
Expected(outcome) ==
    IF outcome = "empty" THEN 2000 ELSE IF outcome = "error" THEN 10000 ELSE 0

\* C39: after every run of a reconciler loop exactly one next run of it is
\* scheduled: 2 seconds later when the select was empty, 10 seconds later
\* when the transaction raised, and at once when a row was processed.
C39_OneNextIteration ==
    \A l \in Loops :
        loops[l].outcome # "start" =>
            /\ loops[l].scheduled = 1
            /\ loops[l].armed = Expected(loops[l].outcome)

InitController ==
    /\ loops = [l \in Loops |-> StartedLoop]
    /\ finalKind = None
    /\ finalRequest = FALSE
    /\ finalTls = 0
    /\ finalEntity = "new"
    /\ finalizers = <<>>
    /\ writer = 0
    /\ alerts = <<>>
    /\ commits = 0

NextSecret ==
    \/ \E kind \in RequestTargets : RequestCreated(kind)
    \/ OnSecretWatch
    \/ \E i \in DOMAIN finalizers : SecretAddedSelects(i)
    \/ \E i \in DOMAIN finalizers : SecretAddedWrites(i)
    \/ \E i \in DOMAIN finalizers : SecretAddedRaises(i)
    \/ \E i \in DOMAIN finalizers : SecretAddedCommits(i)
    \/ \E i \in DOMAIN finalizers : SecretAddedAlerts(i)
    \/ \E i \in DOMAIN finalizers : SecretAddedReleases(i)

\* C32: SiteCertificateChanged, AccessCertificateChanged and CompleteMember
\* are called only by a secretAdded whose transaction has committed: the
\* certificate row is in the database when they are called, and the call
\* that made them was not rolled back and is not still before its COMMIT.
C32_AlertsOnlyAfterCommit ==
    \A j \in DOMAIN alerts :
        /\ alerts[j].visible
        /\ finalizers[alerts[j].by].pc \in {"committed", "released"}

\* a member site's credential was finalized and CompleteMember called, while
\* another secretAdded for the same request was rolled back
C32_Witness ==
    /\ finalKind = "site"
    /\ \E j \in DOMAIN alerts : alerts[j].call = "CompleteMember"
    /\ \E i \in DOMAIN finalizers : finalizers[i].pc = "rolledback"

\* C37: however many times the secret-added event is delivered for a request
\* id, one transaction at most changes rows, and the notifications of the
\* request are made at most once, by the call that committed.
C37_FinalizedOnce ==
    /\ commits <= 1
    /\ finalTls <= 1
    /\ Len(alerts) <= 1
    /\ \A i \in DOMAIN finalizers :
            finalizers[i].alerted => \A j \in DOMAIN finalizers :
                                        finalizers[j].alerted => j = i

\* the request was finalized by one call and a second event, delivered
\* before or after, was rolled back without a notification
C37_Witness ==
    /\ Len(finalizers) >= 2
    /\ commits = 1
    /\ Len(alerts) = 1
    /\ \E i \in DOMAIN finalizers : finalizers[i].pc = "released"
    /\ \E i \in DOMAIN finalizers : finalizers[i].pc = "rolledback" /\ ~finalizers[i].alerted

\* ========================================================================
\* Site templates (site-templates.js)
\* ========================================================================
\* strings are sequences of characters
Chars == {"a", "b"}
CharCode(c) == IF c = "a" THEN 97 ELSE 98

KeyStrings   == { <<"a">>, <<"a", "b">>, <<"b">> }
ValueStrings == { <<"a">>, <<"b">>, <<"b", "b">> }

\* objects with scalar values: the entries in the order of their insertion,
\* no key twice
Objects ==
    { d \in UNION { [1..n -> KeyStrings \X ValueStrings] : n \in 0..MaxEntries } :
        \A i, j \in DOMAIN d : i # j => d[i][1] # d[j][1] }

\* comparison of Array.prototype.sort without a comparator: by code units
RECURSIVE Before(_, _)
Before(x, y) ==
    IF x = <<>> THEN y # <<>>
    ELSE IF y = <<>> THEN FALSE
    ELSE IF Head(x) = Head(y) THEN Before(Tail(x), Tail(y))
    ELSE CharCode(Head(x)) < CharCode(Head(y))

\* keys.sort(): the entries of d by ascending key
RECURSIVE Sorted(_)
Sorted(d) ==
    IF d = <<>> THEN <<>>
    ELSE LET i == CHOOSE i \in DOMAIN d : \A j \in DOMAIN d : j = i \/ Before(d[i][1], d[j][1])
         IN <<d[i]>> \o Sorted(SubSeq(d, 1, i - 1) \o SubSeq(d, i + 1, Len(d)))

\* the loop of lines 459-461: text += key + data[key]
RECURSIVE Text(_)
Text(entries) ==
    IF entries = <<>> THEN <<>>
    ELSE Head(entries)[1] \o Head(entries)[2] \o Text(Tail(entries))

\* createHash('sha1').update(text).digest('hex'), taken to give different
\* digests for different texts
Sha1Hex(text) == [sha1 |-> text]

\* HashOfData(data)
HashOfData(d) == Sha1Hex(Text(Sorted(d)))

\* the (key, value) pairs of an object
Pairs(d) == { d[i] : i \in DOMAIN d }

NotCalled == [returned |-> FALSE, value |-> Sha1Hex(<<>>)]

\* HashOfData is called for the i-th map
CallHashOfData(i) ==
    /\ ~digests[i].returned
    /\ digests' = [digests EXCEPT ![i] = [returned |-> TRUE, value |-> HashOfData(data[i])]]
    /\ UNCHANGED <<data, expandVars, composeVars, controllerVars>>
    /\ UNCHANGED <<nextCid, inFlight, requestTimers, waiters, network, replied, senderVars>>
    /\ UNCHANGED <<syncVars, claimVars, certVars, deployVars, linkVars>>

NextHash == \E i \in 1..2 : CallHashOfData(i)

InitTemplates ==
    /\ data = << <<>>, <<>> >>
    /\ digests = <<NotCalled, NotCalled>>
    /\ template = <<Literal("A")>>
    /\ scope = [local |-> [x |-> String("v")], remote |-> [r |-> [n |-> String("v")]]]
    /\ expansion = NotExpanded
    /\ InitCompose
    /\ InitController

\* any two maps
InitHash ==
    /\ InitSync /\ InitClaim /\ InitCert /\ InitDeploy /\ InitLinks /\ InitAmqp
    /\ data \in Objects \X Objects
    /\ digests = <<NotCalled, NotCalled>>
    /\ template = <<Literal("A")>>
    /\ scope = [local |-> [x |-> String("v")], remote |-> [r |-> [n |-> String("v")]]]
    /\ expansion = NotExpanded
    /\ InitCompose
    /\ InitController

\* any well-formed template and any values of the variables in scope
InitExpand ==
    /\ InitSync /\ InitClaim /\ InitCert /\ InitDeploy /\ InitLinks /\ InitAmqp
    /\ data = << <<>>, <<>> >>
    /\ digests = <<NotCalled, NotCalled>>
    /\ template \in Templates
    /\ scope \in Scopes
    /\ expansion = NotExpanded
    /\ InitCompose
    /\ InitController

\* any template, properly nested or not
InitParse ==
    /\ InitSync /\ InitClaim /\ InitCert /\ InitDeploy /\ InitLinks /\ InitAmqp
    /\ data = << <<>>, <<>> >>
    /\ digests = <<NotCalled, NotCalled>>
    /\ template \in AllTemplates
    /\ scope \in ParseScopes
    /\ expansion = NotExpanded
    /\ InitCompose
    /\ InitController

\* C28: the hashes of two maps are equal exactly when the maps hold the same
\* (key, value) pairs; the order of insertion does not matter.
C28_HashEqualIffSamePairs ==
    (digests[1].returned /\ digests[2].returned) =>
        (digests[1].value = digests[2].value <=> Pairs(data[1]) = Pairs(data[2]))

\* ------------------------------------------------------------------------
\* Specifications
\* ------------------------------------------------------------------------
Init == InitSync /\ InitClaim /\ InitCert /\ InitDeploy /\ InitLinks /\ InitAmqp
        /\ InitTemplates

SpecFailure == Init /\ [][NextFailure]_vars

SpecInvitation == Init /\ [][NextInvitation]_vars

SpecSecret == Init /\ [][NextSecret]_vars

SpecBridge == Init /\ [][NextBridge]_vars

SpecRace == Init /\ [][NextRace]_vars

SpecCompose == Init /\ [][NextCompose]_vars

SpecExpand == InitExpand /\ [][NextExpand]_vars
SpecParse == InitParse /\ [][NextParse]_vars
SpecLoops == Init /\ [][NextLoops]_vars
SpecDynamic == Init /\ [][NextDynamic]_vars

SpecHash == InitHash /\ [][NextHash]_vars

SpecAmqp == Init /\ [][NextAmqp]_vars /\ FairAmqp

SpecBeat == Init /\ [][NextBeat]_vars

SpecSenders == Init /\ [][NextSenders]_vars

SpecBeacon == Init /\ [][NextBeacon]_vars

SpecSync == Init /\ [][NextSync]_vars

SpecClaim == Init /\ [][NextClaim]_vars

SpecClaimLive == Init /\ [][NextClaim]_vars /\ FairClaim

SpecEvaluate == Init /\ [][NextEvaluate]_vars

SpecHeartbeat == Init /\ [][NextHeartbeat]_vars

SpecAccess == Init /\ [][NextAccess]_vars

SpecSite == Init /\ [][NextSite]_vars

SpecCert == Init /\ [][NextCert]_vars

SpecDeploy == Init /\ [][NextDeploy]_vars

SpecHandlers == Init /\ [][NextHandlers]_vars

SpecLinks == Init /\ [][NextLinks]_vars

====
